---- MODULE Spec2Model ----
(***************************************************************************)
(* A model of the sendme provider (src/src/provider.rs): the accept loop   *)
(* of Builder::run, the per-stream protocol handler handle_stream, the     *)
(* blob send path send_blob and the event bus, together with the clients   *)
(* that drive the streams; and of the getter (src/src/get.rs): the event   *)
(* sequence of get::run, its decode task and the caller that reads the     *)
(* Receiving reader, against the provider side of its stream.              *)
(*                                                                         *)
(* A stream's wire is modelled at the level of records and of payload      *)
(* writes: an item of out[s] is either a Response record or one write of   *)
(* n payload bytes that belong to the encoding of a hash.                  *)
(***************************************************************************)
EXTENDS Integers, Sequences, FiniteSets, TLC

\* ------------------------------------------------------------------------
\* Bounds of the model
\* ------------------------------------------------------------------------

\* What the clients do on their streams in total: records written
\* (Handshake, Request, malformed) and write halves closed.
MaxSent == 3

\* The records the client of the event bus scenario writes on its stream.
MaxAsked == 5

\* The data sources of one call of create_collection.
MaxSources == 2

\* ------------------------------------------------------------------------
\* Program constants
\* ------------------------------------------------------------------------

\* protocol::VERSION, "Wire protocol (version 1)"
VERSION == 1

\* blake3 chunk size, the leaf size of the hash tree
CHUNK_SIZE == 1024

\* the little-endian length prefix of an encoding
HEADER_SIZE == 8

\* a hash is 32 bytes; a parent node of the tree is two hashes
HASH_SIZE == 32

PARENT_SIZE == 2 * HASH_SIZE

\* get::MAX_DATA_SIZE: 1024 * 1024 * 1024
MAX_DATA_SIZE == 1073741824

\* tokio::io::duplex(1024): what the pipe between the decode task and the
\* Receiving reader holds
DUPLEX_SIZE == 1024

\* broadcast::channel(8): the backlog of the event bus
CHANNEL_CAPACITY == 8

\* ------------------------------------------------------------------------
\* The universe: connections, streams, hashes, tokens
\* ------------------------------------------------------------------------

Conns == {"c1", "c2"}

Streams == {"s1", "s2"}

\* no connection: the stream has not been opened
NoConn == "none"

\* connection.id()
ConnId(c) == IF c = "c1" THEN 10 ELSE 20

Tokens == {"tokA", "tokB"}

\* Builder.auth_token: the token the provider was configured with
AuthToken == "tokA"

Hashes == {"hColl", "hCollM", "hCollBad", "hB1", "hB2", "hMiss"}

\* the keys of the database
Stored == {"hColl", "hCollM", "hCollBad", "hB1", "hB2", "hB3", "hB4"}

\* the getters: calls of get::run
Getters == {"g1", "g2"}

\* the holders of a broadcast::Receiver<Event> (Provider::subscribe)
Subscribers == {"u1"}

\* Request.id is chosen by the client
ReqIds == {1, 2}

\* BlobOrCollection::Blob(Data {outboard, path, size})
BlobEntry(n) ==
    [kind |-> "Blob", size |-> n, blobs |-> <<>>, total_blobs_size |-> 0,
     parses |-> TRUE]

\* BlobOrCollection::Collection((outboard, data)): size is data.len(),
\* blobs and total_blobs_size are what postcard::from_bytes(data) yields,
\* parses is whether it yields a Collection at all.
CollectionEntry(n, bs, t, p) ==
    [kind |-> "Collection", size |-> n, blobs |-> bs, total_blobs_size |-> t,
     parses |-> p]

\* The database the provider was built with: a collection whose children
\* are all present, one with a child that is absent, one whose bytes do
\* not parse, and blobs shorter than a chunk, of a chunk and a byte, of
\* exactly a chunk and of two chunks and a byte.
InitialDatabase ==
    [h \in Stored |->
        CASE h = "hColl"    -> CollectionEntry(85, <<"hB1", "hB2">>, 1037, TRUE)
          [] h = "hCollM"   -> CollectionEntry(121, <<"hB1", "hMiss", "hB2">>, 1037, TRUE)
          [] h = "hCollBad" -> CollectionEntry(7, <<>>, 0, FALSE)
          [] h = "hB1"      -> BlobEntry(12)
          [] h = "hB2"      -> BlobEntry(1025)
          [] h = "hB3"      -> BlobEntry(1024)
          [] h = "hB4"      -> BlobEntry(2049)]

\* ------------------------------------------------------------------------
\* Wire records
\* ------------------------------------------------------------------------

Handshake(v, t) == [type |-> "Handshake", version |-> v, token |-> t, id |-> 0, name |-> "-"]

Request(i, h) == [type |-> "Request", version |-> 0, token |-> "-", id |-> i, name |-> h]

\* bytes that decode to no record
Malformed == [type |-> "Malformed", version |-> 0, token |-> "-", id |-> 0, name |-> "-"]

ClientRecords ==
    {Handshake(VERSION, t) : t \in Tokens}
        \cup {Handshake(VERSION + 1, AuthToken)}
        \cup {Request(1, h) : h \in Hashes \ {"hB2"}}
        \cup {Request(2, h) : h \in {"hColl", "hMiss"}}
        \cup {Malformed}

NoRequest == Request(0, "-")

\* nothing read yet, and read_lp's None: the peer closed before a record
NoRecord == [type |-> "NoRecord", version |-> 0, token |-> "-", id |-> 0, name |-> "-"]

None == [type |-> "None", version |-> 0, token |-> "-", id |-> 0, name |-> "-"]

\* Response {id, data: res} as written by write_response
Response(i, r, t) == [k |-> "resp", id |-> i, res |-> r, total |-> t, of |-> "-", n |-> 0]

\* one write of n payload bytes of the combined encoding of hash h
Payload(h, n) == [k |-> "data", id |-> 0, res |-> "-", total |-> 0, of |-> h, n |-> n]

\* provider::Event
Event(t, c, i, h) == [type |-> t, connection_id |-> c, request_id |-> i, hash |-> h]

\* ------------------------------------------------------------------------
\* Hash tree codec (bao): sizes of the combined encoding
\* ------------------------------------------------------------------------

\* count_chunks: a content of n bytes has max(1, ceil(n / CHUNK_SIZE)) chunks
count_chunks(n) == IF n = 0 THEN 1 ELSE (n + CHUNK_SIZE - 1) \div CHUNK_SIZE

\* bao::encode::encoded_size(n): header, content and one parent per inner node
encoded_size(n) == HEADER_SIZE + n + (count_chunks(n) - 1) * PARENT_SIZE

RECURSIVE largest_power_of_two_leq(_)
largest_power_of_two_leq(n) ==
    IF n <= 1 THEN 1 ELSE 2 * largest_power_of_two_leq(n \div 2)

\* left_len: the left subtree takes the largest power of two of chunks that
\* leaves at least one byte to the right subtree
left_len(n) == largest_power_of_two_leq((n - 1) \div CHUNK_SIZE) * CHUNK_SIZE

\* What SliceExtractor::new_outboard(file, outboard, 0, n) yields read by
\* read, in pre-order: a parent node, the left subtree, the right subtree;
\* a leaf is the chunk's bytes.
RECURSIVE subtree_reads(_)
subtree_reads(n) ==
    IF n = 0 THEN <<>>
    ELSE IF n <= CHUNK_SIZE THEN <<n>>
    ELSE <<PARENT_SIZE>> \o subtree_reads(left_len(n)) \o subtree_reads(n - left_len(n))

\* (a variant that leaves out the length header)
slice_extractor_reads_headerless(n) == subtree_reads(n)

slice_extractor_reads(n) == <<HEADER_SIZE>> \o subtree_reads(n)

\* ------------------------------------------------------------------------
\* create_collection: the files, the canonical encoding of a manifest
\* ------------------------------------------------------------------------

\* the paths of the data sources: files and a directory
Paths == {"foo", "bar", "baz", "raw", "dir"}

\* path.file_name() as bytes: "foo", "bar", "baz", a name that is not valid
\* UTF-8 (the bytes 'f', 0xff), "dir"
FileName(p) ==
    CASE p = "foo" -> <<102, 111, 111>>
      [] p = "bar" -> <<98, 97, 114>>
      [] p = "baz" -> <<98, 97, 122>>
      [] p = "raw" -> <<102, 255>>
      [] OTHER     -> <<100, 105, 114>>

\* the contents a file can have, and their lengths in bytes
Contents == {"A", "B", "E"}

ContentLen(c) == CASE c = "A" -> 12 [] c = "B" -> 1025 [] OTHER -> 0

\* the file system create_collection runs on: foo and bar have the same
\* content, raw is an empty file
InitialFiles ==
    [p \in Paths |->
        CASE p = "foo" -> [kind |-> "file", content |-> "A"]
          [] p = "bar" -> [kind |-> "file", content |-> "A"]
          [] p = "baz" -> [kind |-> "file", content |-> "B"]
          [] p = "raw" -> [kind |-> "file", content |-> "E"]
          [] OTHER     -> [kind |-> "dir", content |-> "E"]]

\* Option<String>
NoName == [some |-> FALSE, v |-> <<>>]

Some(s) == [some |-> TRUE, v |-> s]

\* DataSource::File(path)
File(p) == [path |-> p, name |-> NoName]

\* DataSource::NamedFile { path, name }
NamedFile(p, n) == [path |-> p, name |-> Some(n)]

\* the data sources a caller passes: files with and without a name, the
\* empty name, two files of one content under one name, one file under two
\* names, a file whose basename is not UTF-8, and a directory
Sources ==
    {File("foo"), NamedFile("bar", <<98, 97, 116>>), NamedFile("baz", <<>>),
     NamedFile("foo", <<98, 97, 116>>), File("raw"), File("dir")}

\* Hash: the digest of a file's content, or of the bytes of a manifest
FileDigest(c) == [src |-> "file", id |-> c, bytes |-> <<>>]

BytesDigest(b) == [src |-> "data", id |-> "-", bytes |-> b]

\* the 32 bytes of a file digest as they stand in a manifest
DigestBytes(h) ==
    [i \in 1..HASH_SIZE |-> CASE h.id = "A" -> 161 [] h.id = "B" -> 178 [] OTHER -> 227]

\* u64::to_le_bytes
RECURSIVE to_le_bytes(_, _)
to_le_bytes(n, k) == IF k = 0 THEN <<>> ELSE <<n % 256>> \o to_le_bytes(n \div 256, k - 1)

RECURSIVE from_le_bytes(_)
\* (a variant that reads the lowest byte only)
from_low_byte(b) == IF b = <<>> THEN 0 ELSE Head(b)

\* u64::from_le_bytes
from_le_bytes(b) == IF b = <<>> THEN 0 ELSE Head(b) + 256 * from_le_bytes(Tail(b))

\* the outboard of a content of n bytes: the length header and one parent
\* node per inner node of the tree
Outboard(n) == [header |-> to_le_bytes(n, HEADER_SIZE), parents |-> count_chunks(n) - 1]

\* outboard.len()
OutboardLen(o) == Len(o.header) + o.parents * PARENT_SIZE

\* BlobOrCollection::Blob(Data { outboard, path, size })
Data(o, p, n) == [kind |-> "Blob", outboard |-> o, path |-> p, size |-> n, data |-> <<>>]

\* BlobOrCollection::Collection((outboard, data))
CollectionOf(o, d) == [kind |-> "Collection", outboard |-> o, path |-> "-", size |-> 0, data |-> d]

\* Blob { name, hash }
Blob(n, h) == [name |-> n, hash |-> h]

\* Collection { name, blobs, total_blobs_size }
Collection(n, bs, t) == [name |-> n, blobs |-> bs, total_blobs_size |-> t]

\* "collection"
CollectionName == <<99, 111, 108, 108, 101, 99, 116, 105, 111, 110>>

\* postcard: an unsigned integer as a varint, 7 bits a byte, low bits first
RECURSIVE varint(_)
varint(n) == IF n < 128 THEN <<n>> ELSE <<128 + (n % 128)>> \o varint(n \div 128)

\* postcard: a string is its length as a varint and its bytes
ser_str(s) == varint(Len(s)) \o s

\* (a variant that leaves the names out of the manifest)
ser_blob_nameless(b) == DigestBytes(b.hash)

\* postcard: a Blob is its name and the 32 bytes of its hash
ser_blob(b) == ser_str(b.name) \o DigestBytes(b.hash)

RECURSIVE ser_blobs(_)
ser_blobs(bs) == IF bs = <<>> THEN <<>> ELSE ser_blob(Head(bs)) \o ser_blobs(Tail(bs))

\* postcard::to_slice(&c, ..): the fields in their order, the sequence
\* with its length as a varint
to_bytes(c) ==
    ser_str(c.name) \o varint(Len(c.blobs)) \o ser_blobs(c.blobs)
        \o varint(c.total_blobs_size)

\* a parse result: a value and the bytes after it, ok FALSE when the bytes
\* end early or hold no such value
Parsed(v, rest) == [ok |-> TRUE, v |-> v, rest |-> rest]

NotParsed == [ok |-> FALSE, v |-> 0, rest |-> <<>>]

\* postcard: read a varint
RECURSIVE de_varint(_)
de_varint(b) ==
    IF b = <<>> THEN NotParsed
    ELSE IF Head(b) < 128 THEN Parsed(Head(b), Tail(b))
    ELSE LET r == de_varint(Tail(b)) IN
         IF r.ok THEN Parsed(Head(b) - 128 + 128 * r.v, r.rest) ELSE NotParsed

\* postcard: read a string; its bytes have to be UTF-8
de_str(b) ==
    LET n == de_varint(b) IN
    IF ~n.ok \/ Len(n.rest) < n.v THEN NotParsed
    ELSE IF \E i \in 1..n.v : n.rest[i] >= 128 THEN NotParsed
    ELSE Parsed(SubSeq(n.rest, 1, n.v), SubSeq(n.rest, n.v + 1, Len(n.rest)))

\* read the 32 bytes of a hash
de_hash(b) ==
    IF Len(b) < HASH_SIZE THEN NotParsed
    ELSE LET raw == SubSeq(b, 1, HASH_SIZE)
             known == {c \in Contents : DigestBytes(FileDigest(c)) = raw}
         IN Parsed(IF known = {} THEN FileDigest("?") ELSE FileDigest(CHOOSE c \in known : TRUE),
                   SubSeq(b, HASH_SIZE + 1, Len(b)))

de_blob(b) ==
    LET n == de_str(b) IN
    IF ~n.ok THEN NotParsed
    ELSE LET h == de_hash(n.rest) IN
         IF ~h.ok THEN NotParsed ELSE Parsed(Blob(n.v, h.v), h.rest)

RECURSIVE de_blobs(_, _)
de_blobs(b, k) ==
    IF k = 0 THEN Parsed(<<>>, b)
    ELSE LET x == de_blob(b) IN
         IF ~x.ok THEN NotParsed
         ELSE LET r == de_blobs(x.rest, k - 1) IN
              IF ~r.ok THEN NotParsed ELSE Parsed(<<x.v>> \o r.v, r.rest)

\* Collection::from_bytes(data): postcard::from_bytes
from_bytes(b) ==
    LET n == de_str(b) IN
    IF ~n.ok THEN NotParsed
    ELSE LET k == de_varint(n.rest) IN
         IF ~k.ok THEN NotParsed
         ELSE LET bs == de_blobs(k.rest, k.v) IN
              IF ~bs.ok THEN NotParsed
              ELSE LET t == de_varint(bs.rest) IN
                   IF ~t.ok THEN NotParsed
                   ELSE Parsed(Collection(n.v, bs.v, t.v), t.rest)

\* the lists of data sources of a call
SourceLists == UNION {[1..n -> Sources] : n \in 0..MaxSources}

NoDigest == FileDigest("-")

\* what a call has returned: nothing yet, Ok((db, hash)) or Err
NoReturn == [st |-> "none", db |-> <<>>, hash |-> NoDigest]

Ok(d, h) == [st |-> "Ok", db |-> d, hash |-> h]

Err == [st |-> "Err", db |-> <<>>, hash |-> NoDigest]

\* no earlier call
NoCall == [data_sources |-> <<>>, ret |-> NoReturn]

\* ------------------------------------------------------------------------
\* Ticket
\* ------------------------------------------------------------------------

\* 32 bytes of one value: a Hash, a PeerId, an AuthToken
Fill(v) == [i \in 1..HASH_SIZE |-> v]

\* SocketAddr::V4(SocketAddrV4 { ip, port })
V4(ip, port) == [v6 |-> FALSE, ip |-> ip, port |-> port, flowinfo |-> 0, scope_id |-> 0]

\* SocketAddr::V6(SocketAddrV6 { ip, port, flowinfo, scope_id })
V6(ip, port, flowinfo, scope_id) ==
    [v6 |-> TRUE, ip |-> ip, port |-> port, flowinfo |-> flowinfo, scope_id |-> scope_id]

\* 127.0.0.1:1234 as in the test, a port of one varint byte, [::1]:1234,
\* and the link-local address [fe80::1%3]:1234
Addrs ==
    {V4(<<127, 0, 0, 1>>, 1234),
     V4(<<10, 0, 0, 2>>, 80),
     V6([i \in 1..16 |-> IF i = 16 THEN 1 ELSE 0], 1234, 0, 0),
     V6([i \in 1..16 |-> CASE i = 1 -> 254 [] i = 2 -> 128 [] i = 16 -> 1 [] OTHER -> 0],
        1234, 0, 3)}

\* Ticket { hash, peer, addr, token }
Ticket(hash, peer, addr, token) == [hash |-> hash, peer |-> peer, addr |-> addr, token |-> token]

Tickets ==
    {Ticket(Fill(h), Fill(7), a, Fill(t)) : h \in {17, 238}, a \in Addrs, t \in {0, 255}}

NoTicket == Ticket(<<>>, <<>>, V4(<<>>, 0), <<>>)

\* serde, not human readable: a SocketAddr is the index of its variant,
\* the octets of the address and the port; flowinfo and scope_id are not
\* written
ser_addr(a) == <<IF a.v6 THEN 1 ELSE 0>> \o a.ip \o varint(a.port)

\* serde, not human readable: SocketAddrV6::new(ip, port, 0, 0)
de_addr(b) ==
    IF b = <<>> \/ Head(b) > 1 THEN NotParsed
    ELSE LET n == IF Head(b) = 1 THEN 16 ELSE 4 IN
         IF Len(b) < 1 + n THEN NotParsed
         ELSE LET p == de_varint(SubSeq(b, n + 2, Len(b))) IN
              IF ~p.ok \/ p.v > 65535 THEN NotParsed
              ELSE Parsed(IF Head(b) = 1 THEN V6(SubSeq(b, 2, n + 1), p.v, 0, 0)
                          ELSE V4(SubSeq(b, 2, n + 1), p.v),
                          p.rest)

\* read 32 bytes
de_bytes32(b) ==
    IF Len(b) < HASH_SIZE THEN NotParsed
    ELSE Parsed(SubSeq(b, 1, HASH_SIZE), SubSeq(b, HASH_SIZE + 1, Len(b)))

\* postcard::to_stdvec(self)
to_stdvec(t) == t.hash \o t.peer \o ser_addr(t.addr) \o t.token

\* postcard::from_bytes::<Ticket>(&bytes)
ticket_from_bytes(b) ==
    LET h == de_bytes32(b) IN
    IF ~h.ok THEN NotParsed
    ELSE LET p == de_bytes32(h.rest) IN
         IF ~p.ok THEN NotParsed
         ELSE LET a == de_addr(p.rest) IN
              IF ~a.ok THEN NotParsed
              ELSE LET k == de_bytes32(a.rest) IN
                   IF ~k.ok THEN NotParsed
                   ELSE Parsed(Ticket(h.v, p.v, a.v, k.v), k.rest)

\* a character of a string is its place in the URL-safe alphabet of 6 bits
\* a character; NoSymbol is any character outside the alphabet
Alphabet == 0..63

NoSymbol == Cardinality(Alphabet)

\* util::encode: 6 bits a character, highest bits first, no padding
encode(b) ==
    [j \in 1..((8 * Len(b) + 5) \div 6) |->
        LET q == (6 * (j - 1)) \div 8 + 1
            r == (6 * (j - 1)) % 8
            next == IF q + 1 <= Len(b) THEN b[q + 1] ELSE 0
        IN CASE r = 0 -> b[q] \div 4
             [] r = 2 -> b[q] % 64
             [] r = 4 -> (b[q] % 16) * 4 + (next \div 64)
             [] OTHER -> (b[q] % 4) * 16 + (next \div 16)]

\* the bytes of a string of valid characters: 8 bits a byte; no string of
\* 4n+1 characters is an encoding, and the bits left over have to be zero
decode_symbols(s) ==
    IF \/ Len(s) % 4 = 1
       \/ Len(s) % 4 = 2 /\ s[Len(s)] % 16 # 0
       \/ Len(s) % 4 = 3 /\ s[Len(s)] % 4 # 0
    THEN NotParsed
    ELSE Parsed([k \in 1..((6 * Len(s)) \div 8) |->
                    LET c == (8 * (k - 1)) \div 6 + 1
                        r == (8 * (k - 1)) % 6
                    IN CASE r = 0 -> s[c] * 4 + (s[c + 1] \div 16)
                         [] r = 2 -> (s[c] % 16) * 16 + (s[c + 1] \div 4)
                         [] OTHER -> (s[c] % 4) * 64 + s[c + 1]],
                <<>>)

\* util::decode: fails on a character outside the alphabet, on a length no
\* encoding has and on bits that are left over
decode(s) ==
    IF \E i \in 1..Len(s) : s[i] >= NoSymbol THEN NotParsed ELSE decode_symbols(s)

\* Display for Ticket
to_string(t) == encode(to_stdvec(t))

\* what from_str returned: nothing yet, Ok(ticket) or Err
NotYet == [st |-> "none", ticket |-> NoTicket]

OkTicket(t) == [st |-> "Ok", ticket |-> t]

ErrTicket == [st |-> "Err", ticket |-> NoTicket]

\* FromStr for Ticket
from_str(s) ==
    LET bytes == decode(s) IN
    IF ~bytes.ok THEN ErrTicket
    ELSE LET slf == ticket_from_bytes(bytes.v) IN
         IF ~slf.ok THEN ErrTicket ELSE OkTicket(slf.v)

\* ------------------------------------------------------------------------
\* State
\* ------------------------------------------------------------------------

\* ------------------------------------------------------------------------
\* Discovery messages (hp/disco.rs)
\* ------------------------------------------------------------------------

\* Current Version
V0 == 0

KEY_LEN == 32

\* 16 byte IP address + 2 byte port
EP_LENGTH == 16 + 2

TX_LEN == 12

\* Header: Type | Version
HEADER_LEN == 2

\* key::node::PUBLIC_KEY_LENGTH: the test's node key has 32 bytes
PUBLIC_KEY_LENGTH == KEY_LEN

PING_LEN == TX_LEN + PUBLIC_KEY_LENGTH

PONG_LEN == TX_LEN + EP_LENGTH

\* #[repr(u8)] enum MessageType
MessageType == [Ping |-> 1, Pong |-> 2, CallMeMaybe |-> 3]

\* no address
NoAddr == V4(<<>>, 0)

\* Message::Ping(Ping { tx_id, node_key })
Ping(tx_id, node_key) ==
    [type |-> "Ping", tx_id |-> tx_id, node_key |-> node_key, src |-> NoAddr,
     my_number |-> <<>>]

\* Message::Pong(Pong { tx_id, src })
Pong(tx_id, src) ==
    [type |-> "Pong", tx_id |-> tx_id, node_key |-> <<>>, src |-> src,
     my_number |-> <<>>]

\* Message::CallMeMaybe(CallMeMaybe { my_number })
CallMeMaybe(my_number) ==
    [type |-> "CallMeMaybe", tx_id |-> <<>>, node_key |-> <<>>, src |-> NoAddr,
     my_number |-> my_number]

NoMessage == [type |-> "-", tx_id |-> <<>>, node_key |-> <<>>, src |-> NoAddr,
              my_number |-> <<>>]

\* Result<Message>
NotRun == [st |-> "none", m |-> NoMessage]

OkMessage(m) == [st |-> "Ok", m |-> m]

ErrMessage == [st |-> "Err", m |-> NoMessage]

msg_header(t, ver) == <<MessageType[t], ver>>

\* (a variant: Ipv4Addr::to_ipv6_compatible, ::a.b.c.d)
to_ipv6_compatible(ip) == [i \in 1..16 |-> IF i <= 12 THEN 0 ELSE ip[i - 12]]

\* Ipv4Addr::to_ipv6_mapped, ::ffff:a.b.c.d
to_ipv6_mapped(ip) ==
    [i \in 1..16 |-> IF i <= 10 THEN 0 ELSE IF i <= 12 THEN 255 ELSE ip[i - 12]]

\* the octets are those of an IPv4-mapped address
is_mapped(ip) == (\A i \in 1..10 : ip[i] = 0) /\ ip[11] = 255 /\ ip[12] = 255

\* to_canonical(IpAddr::from(raw_src_ip)): an IPv4-mapped address becomes
\* the IPv4 address, as the test's pong case has it; any other stays IPv6
to_canonical(ip) ==
    IF is_mapped(ip) THEN [v6 |-> FALSE, ip |-> SubSeq(ip, 13, 16)]
    ELSE [v6 |-> TRUE, ip |-> ip]

\* SocketAddr::new(ip, port): for an IPv6 address flowinfo and scope_id are 0
SocketAddr_new(ip, port) ==
    IF ip.v6 THEN V6(ip.ip, port, 0, 0) ELSE V4(ip.ip, port)

socket_addr_from_bytes(p) ==
    SocketAddr_new(to_canonical(SubSeq(p, 1, 16)), from_le_bytes(SubSeq(p, 17, EP_LENGTH)))

socket_addr_as_bytes(addr) ==
    (IF addr.v6 THEN addr.ip ELSE to_ipv6_mapped(addr.ip)) \o to_le_bytes(addr.port, 2)

Ping_from_bytes(ver, p) ==
    IF ver # V0 THEN ErrMessage
    ELSE IF Len(p) < PING_LEN THEN ErrMessage
    ELSE OkMessage(Ping(SubSeq(p, 1, TX_LEN),
                        SubSeq(p, TX_LEN + 1, TX_LEN + PUBLIC_KEY_LENGTH)))

Ping_as_bytes(m) == msg_header("Ping", V0) \o m.tx_id \o m.node_key

Pong_from_bytes(ver, p) ==
    IF ver # V0 THEN ErrMessage
    ELSE IF Len(p) < PONG_LEN THEN ErrMessage
    ELSE OkMessage(Pong(SubSeq(p, 1, TX_LEN),
                        socket_addr_from_bytes(SubSeq(p, TX_LEN + 1, TX_LEN + EP_LENGTH))))

Pong_as_bytes(m) == msg_header("Pong", V0) \o m.tx_id \o socket_addr_as_bytes(m.src)

\* p.chunks_exact(EP_LENGTH), each chunk through socket_addr_from_bytes
CallMeMaybe_from_bytes(ver, p) ==
    IF ver # V0 THEN ErrMessage
    ELSE IF Len(p) % EP_LENGTH # 0 THEN ErrMessage
    ELSE OkMessage(CallMeMaybe(
             [k \in 1..(Len(p) \div EP_LENGTH) |->
                 socket_addr_from_bytes(SubSeq(p, (k - 1) * EP_LENGTH + 1, k * EP_LENGTH))]))

\* the header, then EP_LENGTH bytes for each entry of my_number
CallMeMaybe_as_bytes(m) ==
    msg_header("CallMeMaybe", V0) \o
    [i \in 1..(Len(m.my_number) * EP_LENGTH) |->
        socket_addr_as_bytes(m.my_number[((i - 1) \div EP_LENGTH) + 1])[((i - 1) % EP_LENGTH) + 1]]

\* Message::from_bytes
Message_from_bytes(p) ==
    IF Len(p) < 2 THEN ErrMessage
    ELSE LET ver == p[2]
             rest == SubSeq(p, 3, Len(p))
         IN CASE p[1] = MessageType.Ping -> Ping_from_bytes(ver, rest)
              [] p[1] = MessageType.Pong -> Pong_from_bytes(ver, rest)
              [] p[1] = MessageType.CallMeMaybe -> CallMeMaybe_from_bytes(ver, rest)
              [] OTHER -> ErrMessage

\* Message::as_bytes
Message_as_bytes(m) ==
    CASE m.type = "Ping" -> Ping_as_bytes(m)
      [] m.type = "Pong" -> Pong_as_bytes(m)
      [] m.type = "CallMeMaybe" -> CallMeMaybe_as_bytes(m)

\* the longest my_number of a CallMeMaybe
MaxNumbers == 2

\* the tx_id of the test, and another
TxIds == {[i \in 1..TX_LEN |-> i], [i \in 1..TX_LEN |-> 255]}

\* the node key of the test, and another
NodeKeys ==
    {[i \in 1..PUBLIC_KEY_LENGTH |->
         CASE i = 2 -> 1 [] i = 3 -> 2 [] i = 31 -> 30 [] i = 32 -> 31 [] OTHER -> 0],
     Fill(7)}

\* the addresses of the test (2.3.4.5:1234, 1.2.3.4:567, [fed0::12]:6666,
\* [2001::3456]:789), the IPv4-mapped [::ffff:2.3.4.5]:1234 and the
\* link-local [fe80::1%3]:1234
Numbers ==
    {V4(<<2, 3, 4, 5>>, 1234),
     V4(<<1, 2, 3, 4>>, 567),
     V6([i \in 1..16 |-> CASE i = 1 -> 254 [] i = 2 -> 208 [] i = 16 -> 18 [] OTHER -> 0],
        6666, 0, 0),
     V6([i \in 1..16 |-> CASE i = 1 -> 32 [] i = 2 -> 1 [] i = 15 -> 52 [] i = 16 -> 86
                           [] OTHER -> 0],
        789, 0, 0),
     V6([i \in 1..16 |-> CASE i \in {11, 12} -> 255 [] i = 13 -> 2 [] i = 14 -> 3
                           [] i = 15 -> 4 [] i = 16 -> 5 [] OTHER -> 0],
        1234, 0, 0),
     V6([i \in 1..16 |-> CASE i = 1 -> 254 [] i = 2 -> 128 [] i = 16 -> 1 [] OTHER -> 0],
        1234, 0, 3)}

\* the messages of the cases
Messages ==
    {Ping(t, k) : t \in TxIds, k \in NodeKeys}
    \cup {Pong(t, a) : t \in TxIds, a \in Numbers}
    \cup {CallMeMaybe(l) : l \in UNION {[1..n -> Numbers] : n \in 0..MaxNumbers}}

VARIABLES
    db,         \* Database: Hash -> BlobOrCollection, shared by all handlers
    conn,       \* per stream: stream.connection(), NoConn before it is opened
    connected,  \* connections server.accept() has returned
    pc,         \* per stream: where its handle_stream task stands
    inq,        \* per stream: records the client wrote that are not yet read
    in_buffer,  \* per stream: how many of the records at the head of inq a
                \* read of read_lp has already taken into in_buffer
    closed,     \* per stream: the client closed its write half
    req,        \* per stream: the Request being served
    idx,        \* per stream: position of the for loop over c.blobs
    seg,        \* per stream: next read of the slice extractor in send_blob
    out,        \* per stream: everything the handler wrote, in order
    events,     \* everything sent on the broadcast channel, in order
    handshake,  \* per stream: what read_lp::<Handshake> returned (history)
    emitted,    \* per stream: the events its handler sent, in order (history)
    mark,       \* per stream: Len(out) when the last request was read (history)
    sent,       \* number of records written and halves closed by the clients
    gpc,        \* per getter: where get::run stands
    ghash,      \* per getter: the hash passed to run
    gtoken,     \* per getter: the token passed to run
    items,      \* per getter: the items its event sequence has yielded
    wrote,      \* per getter: the records it wrote on its stream
    gclosed,    \* per getter: writer.close() has returned
    wire,       \* per getter: what the provider side wrote on its stream
    ppc,        \* per getter: where the provider side of its stream stands
    pseg,       \* per getter: next read of the provider's slice extractor
    pbad,       \* per getter: the node of the encoding that does not match
                \* the hash (the file was changed), 0 for none
    taken,      \* per getter: payload bytes read_n has read from the stream
    buffer,     \* per getter: what read_n returned
    dpc,        \* per getter: where its decode task stands
    dpos,       \* per getter: next node of the buffer the decoder reads
    dbuf,       \* per getter: decoded bytes write_all has not yet written
    pipe,       \* per getter: the bytes in the duplex pipe
    got,        \* per getter: what the caller has read from the reader
    subscribed, \* per subscriber: it holds a Receiver of the event bus
    cursor,     \* per subscriber: how many of the sent events are behind its
                \* Receiver (received, or lost to it)
    seen,       \* per subscriber: what its recv calls returned, in order
    fs,         \* the file system: per path its kind and its content
    data_sources, \* create_collection: its argument
    bpc,        \* create_collection: where the call stands
    bi,         \* create_collection: position of the for loop over data_sources
    new_db,     \* create_collection: its local db
    blobs,      \* create_collection: its local blobs
    total_blobs_size, \* create_collection: its local total_blobs_size
    blobs_encoded_size_estimate, \* create_collection: its local of that name
    flen,       \* compute_outboard: len, the length from the file's metadata
    ret,        \* create_collection: what the call returned
    prev,       \* the argument and the result of the call before (history)
    ticket,     \* the Ticket that was displayed, NoTicket before
    shown,      \* the string of the ticket, as it reaches the parser
    damage,     \* what happened to the string: "none", "invalid", "truncated"
    parsed,     \* what from_str returned
    test_m,     \* test_to_from_bytes: the Message m of the case, NoMessage before
    test_got,   \* test_to_from_bytes: got, the bytes of m.as_bytes()
    test_back,  \* test_to_from_bytes: back, what Message::from_bytes(&got) returned
    aborted,    \* Provider::abort was called: the task of Builder::run is cancelled
    dropped     \* per getter: the caller dropped the Receiving reader: "no",
                \* "early" (before it had read it to the end), "end", or
                \* "late" (after the event sequence was over)

\* the provider and its clients
pvars == <<db, conn, connected, pc, inq, in_buffer, closed, req, idx, seg, out,
           events, handshake, emitted, mark, sent>>

\* the getters and the provider side of their streams
gvars == <<gpc, ghash, gtoken, items, wrote, gclosed, wire, ppc, pseg, pbad,
           taken, buffer, dpc, dpos, dbuf, pipe, got>>

\* what the steps of the provider, its clients and the getters leave alone
svars == <<subscribed, cursor, seen>>

bvars == <<fs, data_sources, bpc, bi, new_db, blobs, total_blobs_size,
           blobs_encoded_size_estimate, flen, ret, prev>>

tvars == <<ticket, shown, damage, parsed>>

mvars == <<test_m, test_got, test_back>>

ovars == <<svars, bvars, tvars, mvars, aborted, dropped>>

vars == <<pvars, gvars, ovars>>

\* no decoded bytes
NoBytes == [chunk |-> 0, n |-> 0]

\* db.get(&hash)
Get(h) == IF h \in DOMAIN db THEN db[h] ELSE [kind |-> "None", size |-> 0, blobs |-> <<>>, total_blobs_size |-> 0, parses |-> TRUE]

Ended(s) == pc[s] \in {"ok", "err"}

Init ==
    /\ db = InitialDatabase
    /\ conn = [s \in Streams |-> NoConn]
    /\ connected = {}
    /\ pc = [s \in Streams |-> "idle"]
    /\ inq = [s \in Streams |-> <<>>]
    /\ in_buffer = [s \in Streams |-> 0]
    /\ closed = [s \in Streams |-> FALSE]
    /\ req = [s \in Streams |-> NoRequest]
    /\ idx = [s \in Streams |-> 0]
    /\ seg = [s \in Streams |-> 0]
    /\ out = [s \in Streams |-> <<>>]
    /\ events = <<>>
    /\ handshake = [s \in Streams |-> NoRecord]
    /\ emitted = [s \in Streams |-> <<>>]
    /\ mark = [s \in Streams |-> 0]
    /\ sent = 0
    /\ gpc = [g \in Getters |-> "init"]
    /\ ghash = [g \in Getters |-> "-"]
    /\ gtoken = [g \in Getters |-> "-"]
    /\ items = [g \in Getters |-> <<>>]
    /\ wrote = [g \in Getters |-> <<>>]
    /\ gclosed = [g \in Getters |-> FALSE]
    /\ wire = [g \in Getters |-> <<>>]
    /\ ppc = [g \in Getters |-> "handshake"]
    /\ pseg = [g \in Getters |-> 0]
    /\ pbad = [g \in Getters |-> 0]
    /\ taken = [g \in Getters |-> 0]
    /\ buffer = [g \in Getters |-> <<>>]
    /\ dpc = [g \in Getters |-> "none"]
    /\ dpos = [g \in Getters |-> 0]
    /\ dbuf = [g \in Getters |-> NoBytes]
    /\ pipe = [g \in Getters |-> <<>>]
    /\ got = [g \in Getters |-> <<>>]
    /\ subscribed = [u \in Subscribers |-> FALSE]
    /\ cursor = [u \in Subscribers |-> 0]
    /\ seen = [u \in Subscribers |-> <<>>]
    /\ fs = InitialFiles
    /\ data_sources = <<>>
    /\ bpc = "idle"
    /\ bi = 0
    /\ new_db = <<>>
    /\ blobs = <<>>
    /\ total_blobs_size = 0
    /\ blobs_encoded_size_estimate = 0
    /\ flen = 0
    /\ ret = NoReturn
    /\ prev = NoCall
    /\ ticket = NoTicket
    /\ shown = <<>>
    /\ damage = "none"
    /\ parsed = NotYet
    /\ test_m = NoMessage
    /\ test_got = <<>>
    /\ test_back = NotRun
    /\ aborted = FALSE
    /\ dropped = [g \in Getters |-> "no"]

\* ------------------------------------------------------------------------
\* Helpers of the handler steps
\* ------------------------------------------------------------------------

\* (a variant that numbers every response 1)
write_response_one(s, i, r, t) == out' = [out EXCEPT ![s] = Append(@, Response(1, r, t))]

\* write_response / write_lp: one Response record on the stream
write_response(s, i, r, t) == out' = [out EXCEPT ![s] = Append(@, Response(i, r, t))]

\* (a variant with a bounded queue: the send waits while a receiver has a
\* full backlog)
EmitWaiting(s, e) ==
    /\ \A u \in Subscribers :
          subscribed[u] => Len(events) - cursor[u] < CHANNEL_CAPACITY
    /\ events' = Append(events, e)
    /\ emitted' = [emitted EXCEPT ![s] = Append(@, e)]

\* (a variant that reports twice)
EmitTwice(s, e) ==
    /\ events' = events \o <<e, e>>
    /\ emitted' = [emitted EXCEPT ![s] = @ \o <<e, e>>]

\* let _ = events.send(e), by the handler of stream s: send is not async
\* and its result (Err when there is no receiver) is discarded
Emit(s, e) ==
    /\ events' = Append(events, e)
    /\ emitted' = [emitted EXCEPT ![s] = Append(@, e)]

\* (a variant in which the error ends the whole connection task)
FailConnection(s) ==
    /\ pc' = [t \in Streams |-> IF conn[t] = conn[s] /\ pc[t] # "idle" THEN "err" ELSE pc[t]]
    /\ inq' = [inq EXCEPT ![s] = <<>>]
    /\ in_buffer' = [in_buffer EXCEPT ![s] = 0]
    /\ req' = [req EXCEPT ![s] = NoRequest]
    /\ idx' = [idx EXCEPT ![s] = 0]
    /\ seg' = [seg EXCEPT ![s] = 0]

\* handle_stream returns Err (a `?`, ensure! or bail!): the task ends and
\* both halves of the stream are dropped; Builder::run logs the error.
Fail(s) ==
    /\ pc' = [pc EXCEPT ![s] = "err"]
    /\ inq' = [inq EXCEPT ![s] = <<>>]
    /\ in_buffer' = [in_buffer EXCEPT ![s] = 0]
    /\ req' = [req EXCEPT ![s] = NoRequest]
    /\ idx' = [idx EXCEPT ![s] = 0]
    /\ seg' = [seg EXCEPT ![s] = 0]

\* (a variant that leaves the loop after one request)
NextRequestLeaves(s) ==
    /\ pc' = [pc EXCEPT ![s] = "ok"]
    /\ UNCHANGED <<inq, in_buffer>>
    /\ req' = [req EXCEPT ![s] = NoRequest]
    /\ idx' = [idx EXCEPT ![s] = 0]
    /\ seg' = [seg EXCEPT ![s] = 0]

\* the bottom of the request loop: in_buffer.clear(), which drops whatever
\* the buffer holds, then back to read_lp
NextRequest(s) ==
    /\ pc' = [pc EXCEPT ![s] = "request"]
    /\ inq' = [inq EXCEPT ![s] = SubSeq(@, in_buffer[s] + 1, Len(@))]
    /\ in_buffer' = [in_buffer EXCEPT ![s] = 0]
    /\ req' = [req EXCEPT ![s] = NoRequest]
    /\ idx' = [idx EXCEPT ![s] = 0]
    /\ seg' = [seg EXCEPT ![s] = 0]

\* (a variant with the two ids in each other's place)
AfterBlobsSwapped(s) == Event("TransferCompleted", req[s].id, ConnId(conn[s]), "-")

\* the event sent after the for loop over c.blobs, left by exhaustion or by break
AfterBlobs(s) == Event("TransferCompleted", ConnId(conn[s]), req[s].id, "-")

\* read_lp can return: a record has arrived, or the peer closed its half
Readable(s) == inq[s] # <<>> \/ closed[s]

\* read_lp::<T>(reader, in_buffer): the next record decoded as a T, None
\* when the peer closed before a new record started, an error (Malformed
\* stands for it) when the bytes decode to no T.
read_lp(s, T) ==
    IF inq[s] = <<>> THEN None
    ELSE IF Head(inq[s]).type = T THEN Head(inq[s])
    ELSE Malformed

\* ------------------------------------------------------------------------
\* The clients
\* ------------------------------------------------------------------------

\* Streams and connections are named in the order in which they are opened.
Opened(s) == conn[s] # NoConn

\* A client opens the bidirectional stream s on connection c, which it
\* has established (connection.open_bidirectional_stream()).
ClientOpen(s, c) ==
    /\ UNCHANGED <<gvars, ovars>>
    /\ ~Opened(s)
    /\ s = "s2" => Opened("s1")
    /\ c = "c2" => \E p \in Streams : conn[p] = "c1"
    /\ conn' = [conn EXCEPT ![s] = c]
    /\ UNCHANGED <<db, connected, pc, inq, in_buffer, closed, req, idx, seg, out, events,
                   handshake, emitted, mark, sent>>

\* A client writes one record (write_lp) on its stream.
ClientSend(s, r) ==
    /\ UNCHANGED <<gvars, ovars>>
    /\ sent < MaxSent
    /\ Opened(s)
    /\ ~closed[s]
    /\ ~Ended(s)
    /\ inq' = [inq EXCEPT ![s] = Append(@, r)]
    /\ sent' = sent + 1
    /\ UNCHANGED <<db, conn, connected, pc, in_buffer, closed, req, idx, seg, out,
                   events, handshake, emitted, mark>>

\* A client closes its write half (writer.close()).
ClientClose(s) ==
    /\ UNCHANGED <<gvars, ovars>>
    /\ sent < MaxSent
    /\ Opened(s)
    /\ ~closed[s]
    /\ ~Ended(s)
    /\ closed' = [closed EXCEPT ![s] = TRUE]
    /\ sent' = sent + 1
    /\ UNCHANGED <<db, conn, connected, pc, inq, in_buffer, req, idx, seg, out, events,
                   handshake, emitted, mark>>

\* ------------------------------------------------------------------------
\* Builder::run: the accept loops
\* ------------------------------------------------------------------------

\* server.accept() returns a connection; its task is spawned. The loop is
\* the body of the task that Provider::abort cancels.
AcceptConnection(c) ==
    /\ UNCHANGED <<gvars, ovars>>
    /\ ~aborted
    /\ c \notin connected
    /\ \E s \in Streams : conn[s] = c
    /\ connected' = connected \cup {c}
    /\ UNCHANGED <<db, conn, pc, inq, in_buffer, closed, req, idx, seg, out, events,
                   handshake, emitted, mark, sent>>

\* (a variant that reports a client once per connection, with its first
\* stream)
AcceptStreamOfNewClient(s) ==
    /\ UNCHANGED <<gvars, ovars>>
    /\ conn[s] \in connected
    /\ pc[s] = "idle"
    /\ Readable(s)
    /\ events' = IF \E p \in Streams : conn[p] = conn[s] /\ pc[p] # "idle"
                 THEN events
                 ELSE Append(events, Event("ClientConnected", ConnId(conn[s]), 0, "-"))
    /\ pc' = [pc EXCEPT ![s] = "handshake"]
    /\ UNCHANGED <<db, conn, connected, inq, in_buffer, closed, req, idx, seg, out,
                   handshake, emitted, mark, sent>>

\* connection.accept_bidirectional_stream() returns a stream the peer has
\* opened: ClientConnected is sent and handle_stream is spawned for it.
AcceptStream(s) ==
    /\ UNCHANGED <<gvars, ovars>>
    /\ conn[s] \in connected
    /\ pc[s] = "idle"
    /\ Readable(s)
    /\ events' = Append(events, Event("ClientConnected", ConnId(conn[s]), 0, "-"))
    /\ pc' = [pc EXCEPT ![s] = "handshake"]
    /\ UNCHANGED <<db, conn, connected, inq, in_buffer, closed, req, idx, seg, out,
                   handshake, emitted, mark, sent>>

\* ------------------------------------------------------------------------
\* handle_stream
\* ------------------------------------------------------------------------

\* (a variant that forgets the token check)
HandshakeAcceptedAnyToken(h) == h.version = VERSION

\* the two ensure! of step 1
HandshakeAccepted(h) == h.version = VERSION /\ h.token = AuthToken

\* 1. Read Handshake: read_lp::<Handshake>, then the ensure!s; None (the
\* peer closed before a record) is "no valid handshake received".
ReadHandshake(s) ==
    /\ UNCHANGED <<gvars, ovars>>
    /\ pc[s] = "handshake"
    /\ Readable(s)
    /\ handshake' = [handshake EXCEPT ![s] = read_lp(s, "Handshake")]
    /\ UNCHANGED <<db, conn, connected, closed, out, events, emitted, mark, sent>>
    /\ \/ /\ read_lp(s, "Handshake").type = "Handshake"
          /\ HandshakeAccepted(read_lp(s, "Handshake"))
          /\ pc' = [pc EXCEPT ![s] = "request"]
          /\ inq' = [inq EXCEPT ![s] = Tail(@)]
          /\ in_buffer' = [in_buffer EXCEPT ![s] = IF @ > 0 THEN @ - 1 ELSE 0]
          /\ UNCHANGED <<req, idx, seg>>
       \/ /\ read_lp(s, "Handshake").type = "Handshake"
          /\ ~HandshakeAccepted(read_lp(s, "Handshake"))
          /\ Fail(s)
       \/ /\ read_lp(s, "Handshake").type = "Malformed"
          /\ Fail(s)
       \/ /\ read_lp(s, "Handshake").type = "None"
          /\ Fail(s)

\* (a variant that also serves a blob requested as root)
ServesBlobsToo(h) == Get(h).kind \in {"Collection", "Blob"}

\* what the match on db.get(&hash) selects for a top-level request
Serves(h) == Get(h).kind = "Collection"

\* (a variant that reads the next request while a blob is still copied)
AwaitsRequestEarly(s) == pc[s] \in {"request", "copy"}

\* the handler is at the read_lp::<Request> at the top of its loop
AwaitsRequest(s) == pc[s] = "request"

\* (a variant that takes the entry out of the map)
AfterRemove(h) == [x \in DOMAIN db \ {h} |-> db[x]]

\* match db.get(&hash): the entry is borrowed from the map behind the Arc,
\* which stays as it is
AfterGet(h) == db

\* 2. read_lp::<Request>: None leaves the loop with Ok(()); a request is
\* announced with RequestReceived and looked up; for a collection the
\* manifest is extracted and parsed before anything is written.
ReadRequest(s) ==
    /\ UNCHANGED <<gvars, ovars>>
    /\ AwaitsRequest(s)
    /\ Readable(s)
    /\ UNCHANGED <<conn, connected, closed, out, handshake, sent>>
    /\ \/ /\ read_lp(s, "Request").type = "None"
          /\ pc' = [pc EXCEPT ![s] = "ok"]
          /\ UNCHANGED <<db, inq, in_buffer, req, idx, seg, events, emitted, mark>>
       \/ /\ read_lp(s, "Request").type = "Malformed"
          /\ Fail(s)
          /\ UNCHANGED <<db, events, emitted, mark>>
       \/ /\ read_lp(s, "Request").type = "Request"
          /\ LET r == read_lp(s, "Request") IN
             /\ Emit(s, Event("RequestReceived", ConnId(conn[s]), r.id, r.name))
             /\ db' = AfterGet(r.name)
             /\ mark' = [mark EXCEPT ![s] = Len(out[s])]
             /\ IF Serves(r.name) /\ ~Get(r.name).parses
                THEN Fail(s)
                ELSE /\ pc' = [pc EXCEPT ![s] = "respond"]
                     /\ inq' = [inq EXCEPT ![s] = Tail(@)]
                     /\ in_buffer' = [in_buffer EXCEPT ![s] = IF @ > 0 THEN @ - 1 ELSE 0]
                     /\ req' = [req EXCEPT ![s] = r]
                     /\ UNCHANGED <<idx, seg>>

\* the for loop over c.blobs at position i: past the last blob the loop is
\* left and the event after it is sent, otherwise send_blob is called.
ForBlobs(s, i) ==
    IF i > Len(Get(req[s].name).blobs)
    THEN /\ Emit(s, AfterBlobs(s))
         /\ NextRequest(s)
    ELSE /\ pc' = [pc EXCEPT ![s] = "child"]
         /\ idx' = [idx EXCEPT ![s] = i]
         /\ UNCHANGED <<inq, in_buffer, req, seg, events, emitted>>

\* The top-level write_response: FoundCollection for a collection entry,
\* else NotFound followed by TransferAborted.
WriteTop(s) ==
    /\ UNCHANGED <<gvars, ovars>>
    /\ pc[s] = "respond"
    /\ UNCHANGED <<db, conn, connected, closed, handshake, mark, sent>>
    /\ \/ /\ Serves(req[s].name)
          /\ write_response(s, req[s].id, "FoundCollection", Get(req[s].name).total_blobs_size)
          /\ pc' = [pc EXCEPT ![s] = "manifest"]
          /\ UNCHANGED <<inq, in_buffer, req, idx, seg, events, emitted>>
       \/ /\ ~Serves(req[s].name)
          /\ write_response(s, req[s].id, "NotFound", 0)
          /\ Emit(s, Event("TransferAborted", ConnId(conn[s]), req[s].id, "-"))
          /\ NextRequest(s)
       \/ /\ Fail(s)
          /\ UNCHANGED <<out, events, emitted>>

\* (a variant that writes the manifest's bytes instead of their encoding)
EncodedManifestRaw(h) == Get(h).size

\* encoded: what the extractor over (data, outboard) yields for the whole
\* manifest, encoded_size(data.len()) bytes
EncodedManifest(h) == encoded_size(Get(h).size)

\* writer.write_buf(&mut data): the manifest's combined encoding
WriteManifest(s) ==
    /\ UNCHANGED <<gvars, ovars>>
    /\ pc[s] = "manifest"
    /\ UNCHANGED <<db, conn, connected, closed, handshake, mark, sent>>
    /\ \/ /\ out' = [out EXCEPT ![s] =
                        Append(@, Payload(req[s].name, EncodedManifest(req[s].name)))]
          /\ ForBlobs(s, 1)
       \/ /\ Fail(s)
          /\ UNCHANGED <<out, events, emitted>>

\* SentStatus of send_blob for a child hash
Status(h) == IF Get(h).kind = "Blob" THEN "Sent" ELSE "NotFound"

\* (a variant that goes on with the next child)
BreaksNever(status) == FALSE

\* if SentStatus::NotFound == status { break; }
Breaks(status) == status = "NotFound"

\* send_blob, up to its write_response: Found for a blob descriptor (the
\* copy follows), NotFound for anything else (the for loop is left).
SendBlob(s) ==
    /\ UNCHANGED <<gvars, ovars>>
    /\ pc[s] = "child"
    /\ UNCHANGED <<db, conn, connected, closed, handshake, mark, sent>>
    /\ LET child == Get(req[s].name).blobs[idx[s]] IN
       \/ /\ Status(child) = "Sent"
          /\ write_response(s, req[s].id, "Found", 0)
          /\ pc' = [pc EXCEPT ![s] = "copy"]
          /\ seg' = [seg EXCEPT ![s] = 1]
          /\ UNCHANGED <<inq, in_buffer, req, idx, events, emitted>>
       \/ /\ Status(child) = "NotFound"
          /\ write_response(s, req[s].id, "NotFound", 0)
          /\ IF Breaks(Status(child))
             THEN /\ Emit(s, AfterBlobs(s))
                  /\ NextRequest(s)
             ELSE ForBlobs(s, idx[s] + 1)
       \/ /\ Fail(s)
          /\ UNCHANGED <<out, events, emitted>>

\* (a variant in which the handler does not wait for the worker: after the
\* worker's first write it goes on with the next child)
CopyBlobDetached(s) ==
    /\ UNCHANGED <<gvars, ovars>>
    /\ pc[s] = "copy"
    /\ UNCHANGED <<db, conn, connected, closed, handshake, mark, sent>>
    /\ LET child == Get(req[s].name).blobs[idx[s]]
           reads == slice_extractor_reads(Get(child).size)
       IN
       \/ /\ out' = [out EXCEPT ![s] = Append(@, Payload(child, reads[seg[s]]))]
          /\ ForBlobs(s, idx[s] + 1)
       \/ /\ Fail(s)
          /\ UNCHANGED <<out, events, emitted>>

\* The blocking worker of send_blob: File::open, then std::io::copy from
\* the slice extractor to the stream, one read and one write_all per step.
\* Opening or reading the file, or the write, may fail.
CopyBlob(s) ==
    /\ UNCHANGED <<gvars, ovars>>
    /\ pc[s] = "copy"
    /\ UNCHANGED <<db, conn, connected, closed, handshake, mark, sent>>
    /\ LET child == Get(req[s].name).blobs[idx[s]]
           reads == slice_extractor_reads(Get(child).size)
       IN
       \/ /\ out' = [out EXCEPT ![s] = Append(@, Payload(child, reads[seg[s]]))]
          /\ IF seg[s] < Len(reads)
             THEN /\ seg' = [seg EXCEPT ![s] = @ + 1]
                  /\ UNCHANGED <<pc, inq, in_buffer, req, idx, events, emitted>>
             ELSE ForBlobs(s, idx[s] + 1)
       \/ /\ Fail(s)
          /\ UNCHANGED <<out, events, emitted>>

Next ==
    \/ \E s \in Streams, c \in Conns : ClientOpen(s, c)
    \/ \E s \in Streams, r \in ClientRecords : ClientSend(s, r)
    \/ \E s \in Streams : ClientClose(s)
    \/ \E c \in Conns : AcceptConnection(c)
    \/ \E s \in Streams : AcceptStream(s)
    \/ \E s \in Streams : ReadHandshake(s)
    \/ \E s \in Streams : ReadRequest(s)
    \/ \E s \in Streams : WriteTop(s)
    \/ \E s \in Streams : WriteManifest(s)
    \/ \E s \in Streams : SendBlob(s)
    \/ \E s \in Streams : CopyBlob(s)

Spec == Init /\ [][Next]_vars

\* Provider::abort: self.task.abort() cancels the task of Builder::run at
\* its server.accept().await; the server is dropped with it. The tasks of
\* the connections and of the stream handlers were spawned detached
\* (tokio::spawn): they and the streams they own are not touched.
Abort ==
    /\ ~aborted
    /\ aborted' = TRUE
    /\ UNCHANGED <<pvars, gvars, mvars, svars, bvars, tvars, dropped>>

\* the provider and its clients, with an owner that may abort the provider
AbortNext ==
    \/ Next
    \/ Abort

AbortSpec == Init /\ [][AbortNext]_vars

\* ------------------------------------------------------------------------
\* The event bus and its subscribers
\* ------------------------------------------------------------------------

\* what recv returns: Ok(event), or Err(Lagged(n)) for n events lost
Received(e) == [lagged |-> 0, event |-> e]

Lagged(n) == [lagged |-> n, event |-> Event("-", 0, 0, "-")]

\* Provider::subscribe: a new Receiver sees the events sent from now on
Subscribe(u) ==
    /\ ~subscribed[u]
    /\ subscribed' = [subscribed EXCEPT ![u] = TRUE]
    /\ cursor' = [cursor EXCEPT ![u] = Len(events)]
    /\ UNCHANGED <<pvars, gvars, mvars, bvars, tvars, seen, aborted, dropped>>

\* (a variant whose channel keeps everything that was sent)
BacklogUnbounded(u) == Len(events) - cursor[u]

\* the events the channel still holds for the receiver: the channel keeps
\* the last CHANNEL_CAPACITY values sent
Backlog(u) ==
    IF Len(events) - cursor[u] > CHANNEL_CAPACITY
    THEN CHANNEL_CAPACITY
    ELSE Len(events) - cursor[u]

\* Receiver::recv returns: Lagged with the number of lost events when the
\* receiver fell behind the backlog (it then stands at the oldest event
\* kept), else the next event
Recv(u) ==
    /\ subscribed[u]
    /\ cursor[u] < Len(events)
    /\ LET lost == Len(events) - cursor[u] - Backlog(u) IN
       IF lost > 0
       THEN /\ seen' = [seen EXCEPT ![u] = Append(@, Lagged(lost))]
            /\ cursor' = [cursor EXCEPT ![u] = @ + lost]
       ELSE /\ seen' = [seen EXCEPT ![u] = Append(@, Received(events[cursor[u] + 1]))]
            /\ cursor' = [cursor EXCEPT ![u] = @ + 1]
    /\ UNCHANGED <<pvars, gvars, mvars, bvars, tvars, subscribed, aborted, dropped>>

\* the records the client of the event bus scenario writes
AskRecords == {Handshake(VERSION, AuthToken), Request(1, "hMiss"), Request(2, "hColl")}

\* The client writes one record (write_lp) on its stream.
Ask(s, r) ==
    /\ UNCHANGED <<gvars, ovars>>
    /\ sent < MaxAsked
    /\ Opened(s)
    /\ ~Ended(s)
    /\ inq[s] = <<>>
    /\ inq' = [inq EXCEPT ![s] = Append(@, r)]
    /\ sent' = sent + 1
    /\ UNCHANGED <<db, conn, connected, pc, in_buffer, closed, req, idx, seg, out,
                   events, handshake, emitted, mark>>

\* one client on one stream, its handler, and the subscribers of the bus
EventNext ==
    \/ ClientOpen("s1", "c1")
    \/ \E r \in AskRecords : Ask("s1", r)
    \/ AcceptConnection("c1")
    \/ AcceptStream("s1")
    \/ ReadHandshake("s1")
    \/ ReadRequest("s1")
    \/ WriteTop("s1")
    \/ WriteManifest("s1")
    \/ SendBlob("s1")
    \/ CopyBlob("s1")
    \/ \E u \in Subscribers : Subscribe(u)
    \/ \E u \in Subscribers : Recv(u)

EventSpec == Init /\ [][EventNext]_vars

\* ------------------------------------------------------------------------
\* A client that does not wait for the answers, and a transport that
\* delivers several records in one read
\* ------------------------------------------------------------------------

\* what the client writes on its stream, in this order
PipeScript ==
    <<Handshake(VERSION, AuthToken), Request(1, "hColl"), Request(2, "hMiss"),
      Request(1, "hColl")>>

\* The client writes its next record (write_lp) without waiting for the
\* answer to the one before.
Pipeline(s) ==
    /\ UNCHANGED <<gvars, ovars>>
    /\ sent < Len(PipeScript)
    /\ Opened(s)
    /\ ~Ended(s)
    /\ inq' = [inq EXCEPT ![s] = Append(@, PipeScript[sent + 1])]
    /\ sent' = sent + 1
    /\ UNCHANGED <<db, conn, connected, pc, in_buffer, closed, req, idx, seg, out,
                   events, handshake, emitted, mark>>

\* (a variant in which a read never returns more than the record asked for)
ReadsAheadNever(n) == n < 0

\* a read may return the bytes of n records when n have arrived
ReadsAhead(n) == n >= 2

\* The read inside read_lp (reading more into in_buffer as needed) returns
\* all the bytes that have arrived: those of the record it waits for and
\* those of the n - 1 records behind it.
ReadAhead(s, n) ==
    /\ UNCHANGED <<gvars, ovars>>
    /\ pc[s] \in {"handshake", "request"}
    /\ in_buffer[s] = 0
    /\ ReadsAhead(n)
    /\ n <= Len(inq[s])
    /\ in_buffer' = [in_buffer EXCEPT ![s] = n]
    /\ UNCHANGED <<db, conn, connected, pc, inq, closed, req, idx, seg, out,
                   events, handshake, emitted, mark, sent>>

PipeNext ==
    \/ ClientOpen("s1", "c1")
    \/ Pipeline("s1")
    \/ AcceptConnection("c1")
    \/ AcceptStream("s1")
    \/ \E n \in 1..Len(PipeScript) : ReadAhead("s1", n)
    \/ ReadHandshake("s1")
    \/ ReadRequest("s1")
    \/ WriteTop("s1")
    \/ WriteManifest("s1")
    \/ SendBlob("s1")
    \/ CopyBlob("s1")

PipeSpec == Init /\ [][PipeNext]_vars

\* ------------------------------------------------------------------------
\* create_collection
\* ------------------------------------------------------------------------

\* (a variant that takes whatever exists for a file)
exists(p) == fs[p].kind \in {"file", "dir"}

\* path.is_file()
is_file(p) == fs[p].kind = "file"

\* (a variant that replaces the map by the new entry)
insert_alone(m, h, v) == [x \in {h} |-> v]

\* HashMap::insert(hash, v)
insert(m, h, v) == [x \in DOMAIN m \cup {h} |-> IF x = h THEN v ELSE m[x]]

\* (a variant that lists a hash only once)
push_unique(bs, b) == IF \E j \in 1..Len(bs) : bs[j].hash = b.hash THEN bs ELSE Append(bs, b)

\* blobs.push(Blob { name, hash })
push(bs, b) == Append(bs, b)

\* OsStr::to_str: the name as a string when it is valid UTF-8
to_str(n) == IF \E i \in 1..Len(n) : n[i] >= 128 THEN NoName ELSE Some(n)

\* (a variant that names every blob after its path)
NameOfPath(data) == IF to_str(FileName(data.path)).some THEN FileName(data.path) ELSE <<>>

\* name.unwrap_or_else(|| path.file_name().and_then(|s| s.to_str())
\*     .unwrap_or_default().to_string())
NameOf(data) ==
    IF data.name.some THEN data.name.v
    ELSE IF to_str(FileName(data.path)).some THEN to_str(FileName(data.path)).v
    ELSE <<>>

\* (a variant that notices only a file that was appended to)
file_grew(len, len2) == len2 > len

\* ensure!(len == len2, "file changed during encoding")
file_changed(len, len2) == len # len2

\* a `?`, ensure! or bail!: the call returns Err, its locals are dropped
Bail ==
    /\ bpc' = "err"
    /\ ret' = Err
    /\ new_db' = <<>>
    /\ blobs' = <<>>
    /\ total_blobs_size' = 0
    /\ blobs_encoded_size_estimate' = 0
    /\ UNCHANGED <<fs, data_sources, bi, flen, prev>>

\* create_collection(data_sources) is called; a second call follows when
\* the first has returned
Call(srcs) ==
    /\ bpc = "idle" \/ (bpc \in {"done", "err"} /\ prev = NoCall)
    /\ prev' = IF bpc = "idle" THEN prev ELSE [data_sources |-> data_sources, ret |-> ret]
    /\ data_sources' = srcs
    /\ new_db' = <<>>
    /\ blobs' = <<>>
    /\ total_blobs_size' = 0
    /\ blobs_encoded_size_estimate' = 0
    /\ bi' = 1
    /\ flen' = 0
    /\ ret' = NoReturn
    /\ bpc' = "loop"
    /\ UNCHANGED <<pvars, gvars, mvars, svars, tvars, aborted, dropped, fs>>

\* the top of the for loop over data_sources: the ensure! of
\* path.is_file(), then compute_outboard in a blocking worker up to the
\* length it reads from the file's metadata
NextSource ==
    /\ bpc = "loop"
    /\ bi <= Len(data_sources)
    /\ LET path == data_sources[bi].path IN
       IF ~is_file(path) THEN Bail
       ELSE /\ flen' = ContentLen(fs[path].content)
            /\ bpc' = "outboard"
            /\ UNCHANGED <<fs, data_sources, bi, new_db, blobs, total_blobs_size,
                           blobs_encoded_size_estimate, ret, prev>>
    /\ UNCHANGED <<pvars, gvars, mvars, svars, tvars, aborted, dropped>>

\* compute_outboard encodes the file and compares the bytes it consumed
\* with the length from the metadata; then the rest of the loop body: the
\* size is read from the outboard's header, the descriptor is inserted, the
\* blob is listed under its name
ComputeOutboard ==
    /\ bpc = "outboard"
    /\ LET data == data_sources[bi]
           content == fs[data.path].content
           len2 == ContentLen(content)
           hash == FileDigest(content)
           outboard == Outboard(len2)
           size == from_le_bytes(outboard.header)
           name == NameOf(data)
       IN IF file_changed(flen, len2) THEN Bail
          ELSE /\ new_db' = insert(new_db, hash, Data(outboard, data.path, size))
               /\ total_blobs_size' = total_blobs_size + size
               /\ blobs_encoded_size_estimate' =
                        blobs_encoded_size_estimate + Len(name) + HASH_SIZE
               /\ blobs' = push(blobs, Blob(name, hash))
               /\ bi' = bi + 1
               /\ bpc' = "loop"
               /\ UNCHANGED <<fs, data_sources, flen, ret, prev>>
    /\ UNCHANGED <<pvars, gvars, mvars, svars, tvars, aborted, dropped>>

\* After the loop: the manifest c is built and serialized into a buffer of
\* the estimated size (to_slice fails when it does not fit), its outboard
\* and hash are computed and it is inserted; Ok((db, hash)) is returned.
InsertCollection ==
    /\ bpc = "loop"
    /\ bi > Len(data_sources)
    /\ LET c == Collection(CollectionName, blobs, total_blobs_size)
           room == blobs_encoded_size_estimate + Len(c.name) + 1024
           data == to_bytes(c)
           hash == BytesDigest(data)
       IN IF Len(data) > room THEN Bail
          ELSE /\ new_db' = insert(new_db, hash, CollectionOf(Outboard(Len(data)), data))
               /\ ret' = Ok(insert(new_db, hash, CollectionOf(Outboard(Len(data)), data)), hash)
               /\ blobs_encoded_size_estimate' = blobs_encoded_size_estimate + Len(c.name)
               /\ bpc' = "done"
               /\ UNCHANGED <<fs, data_sources, bi, blobs, total_blobs_size, flen, prev>>
    /\ UNCHANGED <<pvars, gvars, mvars, svars, tvars, aborted, dropped>>

\* a caller that builds a collection, and then a second one
BuildNext ==
    \/ \E srcs \in SourceLists : Call(srcs)
    \/ NextSource
    \/ ComputeOutboard
    \/ InsertCollection

BuildSpec == Init /\ [][BuildNext]_vars

\* another process writes the file p while create_collection runs: its
\* content, and with it its length, becomes c
FileChange(p, c) ==
    /\ bpc \in {"loop", "outboard"}
    /\ fs[p].kind = "file"
    /\ fs[p].content # c
    /\ fs' = [fs EXCEPT ![p].content = c]
    /\ UNCHANGED <<pvars, gvars, mvars, svars, tvars, aborted, dropped, data_sources, bpc, bi,
                   new_db, blobs, total_blobs_size, blobs_encoded_size_estimate, flen,
                   ret, prev>>

\* one call of create_collection on files that change
ChangeNext ==
    \/ \E srcs \in SourceLists : bpc = "idle" /\ Call(srcs)
    \/ NextSource
    \/ ComputeOutboard
    \/ InsertCollection
    \/ \E p \in {"foo", "baz"}, c \in Contents : FileChange(p, c)

ChangeSpec == Init /\ [][ChangeNext]_vars

\* ------------------------------------------------------------------------
\* The combined encoding as nodes, and the decoder (bao)
\* ------------------------------------------------------------------------

\* the kinds of the nodes the slice extractor yields, in its order
RECURSIVE subtree_nodes(_)
subtree_nodes(n) ==
    IF n = 0 THEN <<>>
    ELSE IF n <= CHUNK_SIZE THEN <<"chunk">>
    ELSE <<"parent">> \o subtree_nodes(left_len(n)) \o subtree_nodes(n - left_len(n))

slice_extractor_nodes(n) == <<"header">> \o subtree_nodes(n)

\* n bytes of a stream: node number `at` of the combined encoding of `of`.
\* A header states the content length len, a chunk node holds chunk number
\* chunk of the file; good: the bytes hash to what the tree of `of` holds
\* for that node.
Node(h, j, kd, n, len, c, g) ==
    [k |-> "data", id |-> 0, res |-> "-", total |-> 0, of |-> h, at |-> j,
     kind |-> kd, n |-> n, len |-> len, chunk |-> c, good |-> g]

\* the chunk nodes among the first j nodes
ChunkNo(nodes, j) == Cardinality({i \in 1..j : nodes[i] = "chunk"})

\* the j-th read of SliceExtractor::new_outboard(file, outboard, 0, size)
\* for the blob h, whose node bad (0: none) no longer matches the hash
ExtractorNode(h, j, bad) ==
    LET nodes == slice_extractor_nodes(Get(h).size)
        reads == slice_extractor_reads(Get(h).size)
    IN Node(h, j, nodes[j], reads[j],
            IF nodes[j] = "header" THEN Get(h).size ELSE 0,
            IF nodes[j] = "chunk" THEN ChunkNo(nodes, j) ELSE 0,
            j # bad)

\* the content of a file of n bytes, chunk by chunk
FileRuns(n) ==
    IF n = 0 THEN <<>>
    ELSE [i \in 1..count_chunks(n) |->
            [chunk |-> i,
             n |-> IF i < count_chunks(n) THEN CHUNK_SIZE ELSE n - (i - 1) * CHUNK_SIZE]]

\* (a variant that splits every subtree in the middle)
RECURSIVE decoder_subtree_halved(_)
decoder_subtree_halved(n) ==
    IF n = 0 THEN <<>>
    ELSE IF n <= CHUNK_SIZE THEN <<[kind |-> "chunk", n |-> n]>>
    ELSE <<[kind |-> "parent", n |-> PARENT_SIZE]>>
            \o decoder_subtree_halved(n \div 2) \o decoder_subtree_halved(n - n \div 2)

\* what bao::decode::Decoder expects after a header that states n bytes:
\* a parent node, then its left and its right subtree, a chunk at a leaf
RECURSIVE decoder_subtree(_)
decoder_subtree(n) ==
    IF n = 0 THEN <<>>
    ELSE IF n <= CHUNK_SIZE THEN <<[kind |-> "chunk", n |-> n]>>
    ELSE <<[kind |-> "parent", n |-> PARENT_SIZE]>>
            \o decoder_subtree(left_len(n)) \o decoder_subtree(n - left_len(n))

\* bytes of a run appended to runs of bytes: bytes of one chunk are one run
AppendRun(q, r) ==
    IF q # <<>> /\ q[Len(q)].chunk = r.chunk
    THEN [q EXCEPT ![Len(q)].n = @ + r.n]
    ELSE Append(q, r)

RECURSIVE Join(_, _)
Join(a, b) == IF b = <<>> THEN a ELSE Join(AppendRun(a, Head(b)), Tail(b))

RECURSIVE TotalLen(_)
TotalLen(q) == IF q = <<>> THEN 0 ELSE Head(q).n + TotalLen(Tail(q))

\* the first n bytes of a sequence of nodes; the last node may be cut
RECURSIVE TakeBytes(_, _)
TakeBytes(q, n) ==
    IF n = 0 \/ q = <<>> THEN <<>>
    ELSE IF Head(q).n <= n THEN <<Head(q)>> \o TakeBytes(Tail(q), n - Head(q).n)
    ELSE <<[Head(q) EXCEPT !.n = n]>>

\* ------------------------------------------------------------------------
\* get::run: the getter's event sequence
\* ------------------------------------------------------------------------

\* an item of the event sequence: Ok(event), or Err for type "Error"
Item(t, h, n, w) == [type |-> t, hash |-> h, size |-> n, why |-> w]

Yield(g, it) == items' = [items EXCEPT ![g] = Append(@, it)]

\* (a variant whose sequence goes on after an Err item)
ThrowAndGoOn(g, w) ==
    /\ Yield(g, Item("Error", "-", 0, w))
    /\ gpc' = [gpc EXCEPT ![g] = IF gpc[g] = "receiving" THEN "close" ELSE "end"]

\* an Err item (`?`): the sequence ends, the stream's halves are dropped
Throw(g, w) ==
    /\ Yield(g, Item("Error", "-", 0, w))
    /\ gpc' = [gpc EXCEPT ![g] = "end"]

\* the event sequence is over: after Done, after an Err item, or by a panic
Over(g) == gpc[g] \in {"end", "panic"}

\* the provider side dropped the stream
Gone(g) == ppc[g] = "gone"

\* setup and open_bidirectional_stream returned: yield Connected
GetConnect(g, h, t) ==
    /\ gpc[g] = "init"
    /\ ghash' = [ghash EXCEPT ![g] = h]
    /\ gtoken' = [gtoken EXCEPT ![g] = t]
    /\ Yield(g, Item("Connected", "-", 0, "-"))
    /\ gpc' = [gpc EXCEPT ![g] = "handshake"]
    /\ UNCHANGED <<wrote, gclosed, wire, ppc, pseg, pbad, taken, buffer, dpc,
                   dpos, dbuf, pipe, got>>
    /\ UNCHANGED <<pvars, ovars>>

\* (a variant that sends the next version)
NewHandshakeNext(t) == Handshake(VERSION + 1, t)

\* Handshake::new(token)
NewHandshake(t) == Handshake(VERSION, t)

\* 1. Send Handshake
WriteHandshake(g) ==
    /\ gpc[g] = "handshake"
    /\ wrote' = [wrote EXCEPT ![g] = Append(@, NewHandshake(gtoken[g]))]
    /\ gpc' = [gpc EXCEPT ![g] = "request"]
    /\ UNCHANGED <<ghash, gtoken, items, gclosed, wire, ppc, pseg, pbad, taken,
                   buffer, dpc, dpos, dbuf, pipe, got>>
    /\ UNCHANGED <<pvars, ovars>>

\* (a variant that numbers its request 0)
NewRequestZero(h) == Request(0, h)

\* Request { id: 1, name: hash.into() }
NewRequest(h) == Request(1, h)

\* 2. Send Request
WriteRequest(g) ==
    /\ gpc[g] = "request"
    /\ wrote' = [wrote EXCEPT ![g] = Append(@, NewRequest(ghash[g]))]
    /\ gpc' = [gpc EXCEPT ![g] = "response"]
    /\ UNCHANGED <<ghash, gtoken, items, gclosed, wire, ppc, pseg, pbad, taken,
                   buffer, dpc, dpos, dbuf, pipe, got>>
    /\ UNCHANGED <<pvars, ovars>>

\* (a variant that takes every record for Found)
ResponseDataFound(x) == "Found"

\* postcard::from_bytes::<Response> and the match on response.data: the
\* getter's Res is Found { size, outboard } or NotFound; any other record
\* decodes to no Response
ResponseData(x) == IF x.res \in {"Found", "NotFound"} THEN x.res ELSE "Malformed"

\* 3. Read response: read_lp_data (None when the provider side is gone),
\* the decoding of the record, up to the yield of Requested
ReadResponse(g) ==
    /\ gpc[g] = "response"
    /\ wire[g] # <<>> \/ Gone(g)
    /\ IF wire[g] = <<>> THEN Throw(g, "provider disconnected")
       ELSE IF ResponseData(wire[g][1]) = "Found"
            THEN /\ Yield(g, Item("Requested", "-", wire[g][1].total, "-"))
                 /\ gpc' = [gpc EXCEPT ![g] = "requested"]
       ELSE IF ResponseData(wire[g][1]) = "NotFound" THEN Throw(g, "data not found")
       ELSE Throw(g, "decode")
    /\ UNCHANGED <<ghash, gtoken, wrote, gclosed, wire, ppc, pseg, pbad, taken,
                   buffer, dpc, dpos, dbuf, pipe, got>>
    /\ UNCHANGED <<pvars, ovars>>

\* (a variant that also refuses the maximum itself)
TooLargeFromMax(size) == size >= MAX_DATA_SIZE

\* if size > MAX_DATA_SIZE
TooLarge(size) == size > MAX_DATA_SIZE

\* the payload bytes on the stream: what follows the first Response
Arrived(g) == SubSeq(wire[g], 2, Len(wire[g]))

\* After Requested: the size check, read_n of encoded_size(size) bytes,
\* the spawn of the decode task and the yield of Receiving. read_n unwraps
\* the result of read_exact: the stream ending short of the bytes panics.
ReadData(g) ==
    /\ gpc[g] = "requested"
    /\ LET size == wire[g][1].total
           expected == encoded_size(size)
       IN IF TooLarge(size)
          THEN /\ Throw(g, "size too large")
               /\ UNCHANGED <<taken, buffer, dpc, dpos>>
          ELSE IF TotalLen(Arrived(g)) >= expected
          THEN /\ buffer' = [buffer EXCEPT ![g] = TakeBytes(Arrived(g), expected)]
               /\ taken' = [taken EXCEPT ![g] = expected]
               /\ dpc' = [dpc EXCEPT ![g] = "running"]
               /\ dpos' = [dpos EXCEPT ![g] = 1]
               /\ Yield(g, Item("Receiving", ghash[g], 0, "-"))
               /\ gpc' = [gpc EXCEPT ![g] = "receiving"]
          ELSE /\ Gone(g)
               /\ gpc' = [gpc EXCEPT ![g] = "panic"]
               /\ taken' = [taken EXCEPT ![g] = TotalLen(Arrived(g))]
               /\ UNCHANGED <<items, buffer, dpc, dpos>>
    /\ UNCHANGED <<ghash, gtoken, wrote, gclosed, wire, ppc, pseg, pbad, dbuf,
                   pipe, got>>
    /\ UNCHANGED <<pvars, ovars>>

\* (a variant that does not look at the task's result)
AwaitTaskUnchecked(g) ==
    /\ gpc[g] = "receiving"
    /\ dpc[g] \in {"ok", "err"}
    /\ gpc' = [gpc EXCEPT ![g] = "close"]
    /\ UNCHANGED items
    /\ UNCHANGED <<ghash, gtoken, wrote, gclosed, wire, ppc, pseg, pbad, taken,
                   buffer, dpc, dpos, dbuf, pipe, got>>
    /\ UNCHANGED <<pvars, ovars>>

\* t.await??: the decode task has ended
AwaitTask(g) ==
    /\ gpc[g] = "receiving"
    /\ dpc[g] \in {"ok", "err"}
    /\ IF dpc[g] = "ok"
       THEN /\ gpc' = [gpc EXCEPT ![g] = "close"]
            /\ UNCHANGED items
       ELSE Throw(g, "decode task")
    /\ UNCHANGED <<ghash, gtoken, wrote, gclosed, wire, ppc, pseg, pbad, taken,
                   buffer, dpc, dpos, dbuf, pipe, got>>
    /\ UNCHANGED <<pvars, ovars>>

\* writer.close(), then yield Done(stats) with data_len = size
CloseWriter(g) ==
    /\ gpc[g] = "close"
    /\ gclosed' = [gclosed EXCEPT ![g] = TRUE]
    /\ Yield(g, Item("Done", "-", wire[g][1].total, "-"))
    /\ gpc' = [gpc EXCEPT ![g] = "end"]
    /\ UNCHANGED <<ghash, gtoken, wrote, wire, ppc, pseg, pbad, taken, buffer,
                   dpc, dpos, dbuf, pipe, got>>
    /\ UNCHANGED <<pvars, ovars>>

\* setup, open_bidirectional_stream, write_lp, read_lp_data or
\* writer.close() returns an error
GetterIoError(g) ==
    /\ gpc[g] \in {"init", "handshake", "request", "response", "close"}
    /\ Throw(g, "io")
    /\ UNCHANGED <<ghash, gtoken, wrote, gclosed, wire, ppc, pseg, pbad, taken,
                   buffer, dpc, dpos, dbuf, pipe, got>>
    /\ UNCHANGED <<pvars, ovars>>

\* ------------------------------------------------------------------------
\* The decode task and the caller's reader
\* ------------------------------------------------------------------------

\* (a variant that takes every node that is in its place for verified)
NodeInPlace(g, j, plan) ==
    /\ j <= Len(buffer[g])
    /\ buffer[g][j].kind = plan[j - 1].kind
    /\ buffer[g][j].n = plan[j - 1].n

\* the decoder, keyed on the hash passed to run, verifies node j of the
\* buffer: it is the node the tree of that hash has in that place
NodeVerified(g, j, plan) ==
    /\ j <= Len(buffer[g])
    /\ buffer[g][j].kind = plan[j - 1].kind
    /\ buffer[g][j].n = plan[j - 1].n
    /\ buffer[g][j].of = ghash[g]
    /\ buffer[g][j].at = j
    /\ buffer[g][j].good

\* decoder.read(&mut buf) from node j on: the header on the first read,
\* then parent nodes down to the next chunk; the chunk's bytes, 0 bytes at
\* the end of the tree, or an error
RECURSIVE decoder_read(_, _)
decoder_read(g, j) ==
    IF buffer[g] = <<>> \/ buffer[g][1].kind # "header" \/ buffer[g][1].n # HEADER_SIZE
    THEN [st |-> "err", at |-> j]
    ELSE LET plan == decoder_subtree(buffer[g][1].len) IN
         IF j = 1 THEN decoder_read(g, 2)
         ELSE IF j - 1 > Len(plan) THEN [st |-> "eof", at |-> j]
         ELSE IF ~NodeVerified(g, j, plan) THEN [st |-> "err", at |-> j]
         ELSE IF plan[j - 1].kind = "parent" THEN decoder_read(g, j + 1)
         ELSE [st |-> "chunk", at |-> j]

\* one decoder.read of the task's loop: at the end b is flushed and the
\* task returns Ok, on an error it returns Err; either way b is dropped
TaskRead(g) ==
    /\ dpc[g] = "running"
    /\ dbuf[g] = NoBytes
    /\ LET r == decoder_read(g, dpos[g]) IN
       IF r.st = "chunk"
       THEN /\ dbuf' = [dbuf EXCEPT ![g] =
                            [chunk |-> buffer[g][r.at].chunk, n |-> buffer[g][r.at].n]]
            /\ dpos' = [dpos EXCEPT ![g] = r.at + 1]
            /\ UNCHANGED dpc
       ELSE /\ dpc' = [dpc EXCEPT ![g] = IF r.st = "eof" THEN "ok" ELSE "err"]
            /\ UNCHANGED <<dbuf, dpos>>
    /\ UNCHANGED <<gpc, ghash, gtoken, items, wrote, gclosed, wire, ppc, pseg,
                   pbad, taken, buffer, pipe, got>>
    /\ UNCHANGED <<pvars, ovars>>

\* (a variant whose pipe takes whatever is written)
RoomUnbounded(g) == dbuf[g].n

\* what the duplex pipe can take of the bytes write_all holds
Room(g) ==
    IF dbuf[g].n <= DUPLEX_SIZE - TotalLen(pipe[g])
    THEN dbuf[g].n
    ELSE DUPLEX_SIZE - TotalLen(pipe[g])

\* the read half a of the duplex pipe was dropped: the pipe is closed
ReaderDropped(g) == dropped[g] # "no"

\* b.write_all(&buf[..read]): as many bytes as the pipe has room for; a
\* write to the pipe whose reader was dropped fails (BrokenPipe)
TaskWrite(g) ==
    /\ dpc[g] = "running"
    /\ dbuf[g] # NoBytes
    /\ IF ReaderDropped(g)
       THEN /\ dpc' = [dpc EXCEPT ![g] = "err"]
            /\ UNCHANGED <<pipe, dbuf>>
       ELSE /\ Room(g) > 0
            /\ pipe' = [pipe EXCEPT ![g] =
                            AppendRun(@, [chunk |-> dbuf[g].chunk, n |-> Room(g)])]
            /\ dbuf' = [dbuf EXCEPT ![g] =
                            IF Room(g) = dbuf[g].n THEN NoBytes
                            ELSE [chunk |-> dbuf[g].chunk, n |-> dbuf[g].n - Room(g)]]
            /\ UNCHANGED dpc
    /\ UNCHANGED <<gpc, ghash, gtoken, items, wrote, gclosed, wire, ppc, pseg,
                   pbad, taken, buffer, dpos, got>>
    /\ UNCHANGED <<pvars, ovars>>

\* (a variant: a caller that takes every event first and reads the reader
\* when the sequence is over)
CallerReadAfterwards(g) ==
    /\ Over(g)
    /\ ~ReaderDropped(g)
    /\ pipe[g] # <<>>
    /\ got' = [got EXCEPT ![g] = Join(@, pipe[g])]
    /\ pipe' = [pipe EXCEPT ![g] = <<>>]
    /\ UNCHANGED <<gpc, ghash, gtoken, items, wrote, gclosed, wire, ppc, pseg,
                   pbad, taken, buffer, dpc, dpos, dbuf>>
    /\ UNCHANGED <<pvars, ovars>>

\* the caller reads the Receiving reader: the bytes the pipe holds
CallerRead(g) ==
    /\ ~ReaderDropped(g)
    /\ pipe[g] # <<>>
    /\ got' = [got EXCEPT ![g] = Join(@, pipe[g])]
    /\ pipe' = [pipe EXCEPT ![g] = <<>>]
    /\ UNCHANGED <<gpc, ghash, gtoken, items, wrote, gclosed, wire, ppc, pseg,
                   pbad, taken, buffer, dpc, dpos, dbuf>>
    /\ UNCHANGED <<pvars, ovars>>

\* the reader is at its end: b was dropped and the pipe is empty
ReaderAtEnd(g) == dpc[g] \in {"ok", "err"} /\ pipe[g] = <<>>

\* The caller drops the reader of the Receiving event; what the pipe still
\* holds is discarded with it.
CallerDrop(g) ==
    /\ dpc[g] # "none"
    /\ ~ReaderDropped(g)
    /\ dropped' = [dropped EXCEPT ![g] =
                       IF Over(g) THEN "late"
                       ELSE IF ReaderAtEnd(g) THEN "end" ELSE "early"]
    /\ UNCHANGED <<pvars, gvars, mvars, svars, bvars, tvars, aborted>>

\* ------------------------------------------------------------------------
\* The provider side of a getter's stream
\* ------------------------------------------------------------------------

\* 1. Read Handshake, on the getter's stream
PeerHandshake(g) ==
    /\ ppc[g] = "handshake"
    /\ wrote[g] # <<>> \/ Over(g)
    /\ ppc' = [ppc EXCEPT ![g] =
                  IF wrote[g] # <<>> /\ HandshakeAccepted(wrote[g][1])
                  THEN "request" ELSE "gone"]
    /\ UNCHANGED <<gpc, ghash, gtoken, items, wrote, gclosed, wire, pseg, pbad,
                   taken, buffer, dpc, dpos, dbuf, pipe, got>>
    /\ UNCHANGED <<pvars, ovars>>

\* The request is read and answered: FoundCollection for a collection
\* entry (what follows it on the stream is left out: the getter reads no
\* further), NotFound for an absent hash, and for a blob descriptor Found
\* with the declared size, followed by the blob's encoding.
PeerRequest(g, declared, bad) ==
    /\ ppc[g] = "request"
    /\ Len(wrote[g]) >= 2
    /\ wire[g] = <<>>
    /\ LET r == wrote[g][2] IN
       IF Get(r.name).kind = "Blob"
       THEN /\ wire' = [wire EXCEPT ![g] = <<Response(r.id, "Found", declared)>>]
            /\ ppc' = [ppc EXCEPT ![g] = "copy"]
            /\ pseg' = [pseg EXCEPT ![g] = 1]
            /\ pbad' = [pbad EXCEPT ![g] = bad]
       ELSE /\ declared = 0 /\ bad = 0
            /\ wire' = [wire EXCEPT ![g] =
                            IF Serves(r.name)
                            THEN <<Response(r.id, "FoundCollection", Get(r.name).total_blobs_size)>>
                            ELSE <<Response(r.id, "NotFound", 0)>>]
            /\ UNCHANGED <<ppc, pseg, pbad>>
    /\ UNCHANGED <<gpc, ghash, gtoken, items, wrote, gclosed, taken, buffer,
                   dpc, dpos, dbuf, pipe, got>>
    /\ UNCHANGED <<pvars, ovars>>

\* (a variant with one writer for all streams: the bytes go to the stream
\* that was accepted first)
PeerCopyOneWriter(g) ==
    /\ ppc[g] = "copy"
    /\ LET h == wrote[g][2].name IN
       /\ wire' = [wire EXCEPT !["g1"] = Append(@, ExtractorNode(h, pseg[g], pbad[g]))]
       /\ IF pseg[g] < Len(slice_extractor_reads(Get(h).size))
          THEN /\ pseg' = [pseg EXCEPT ![g] = @ + 1]
               /\ UNCHANGED ppc
          ELSE /\ ppc' = [ppc EXCEPT ![g] = "request"]
               /\ UNCHANGED pseg
    /\ UNCHANGED <<gpc, ghash, gtoken, items, wrote, gclosed, pbad, taken, buffer,
                   dpc, dpos, dbuf, pipe, got>>
    /\ UNCHANGED <<pvars, ovars>>

\* the copy of send_blob on the getter's stream, one extractor read a step
PeerCopy(g) ==
    /\ ppc[g] = "copy"
    /\ LET h == wrote[g][2].name IN
       /\ wire' = [wire EXCEPT ![g] = Append(@, ExtractorNode(h, pseg[g], pbad[g]))]
       /\ IF pseg[g] < Len(slice_extractor_reads(Get(h).size))
          THEN /\ pseg' = [pseg EXCEPT ![g] = @ + 1]
               /\ UNCHANGED ppc
          ELSE /\ ppc' = [ppc EXCEPT ![g] = "request"]
               /\ UNCHANGED pseg
    /\ UNCHANGED <<gpc, ghash, gtoken, items, wrote, gclosed, pbad, taken, buffer,
                   dpc, dpos, dbuf, pipe, got>>
    /\ UNCHANGED <<pvars, ovars>>

\* read_lp returns None: the getter closed or dropped its half and no
\* further request is there; the handler returns
PeerEnd(g) ==
    /\ ppc[g] = "request"
    /\ gclosed[g] \/ Over(g)
    /\ Len(wrote[g]) < 2 \/ wire[g] # <<>>
    /\ ppc' = [ppc EXCEPT ![g] = "gone"]
    /\ UNCHANGED <<gpc, ghash, gtoken, items, wrote, gclosed, wire, pseg, pbad,
                   taken, buffer, dpc, dpos, dbuf, pipe, got>>
    /\ UNCHANGED <<pvars, ovars>>

\* the handler fails while it answers (a write or the file fails) and the
\* stream is dropped
PeerFail(g) ==
    /\ \/ ppc[g] = "copy"
       \/ ppc[g] = "request" /\ Len(wrote[g]) >= 2 /\ wire[g] = <<>>
    /\ ppc' = [ppc EXCEPT ![g] = "gone"]
    /\ UNCHANGED <<gpc, ghash, gtoken, items, wrote, gclosed, wire, pseg, pbad,
                   taken, buffer, dpc, dpos, dbuf, pipe, got>>
    /\ UNCHANGED <<pvars, ovars>>

\* the hashes a getter asks for
Wanted == {"hB1", "hB2", "hB3", "hB4", "hColl", "hMiss"}

\* the sizes a Found may declare: the blob's, and the two around the limit
Declared(h) ==
    IF Get(h).kind = "Blob" THEN {Get(h).size, MAX_DATA_SIZE, MAX_DATA_SIZE + 1} ELSE {0}

\* the nodes of a blob's encoding that may turn out changed: none, or a
\* parent or chunk node
Changed(h) ==
    {0} \cup (IF Get(h).kind = "Blob"
              THEN {j \in 2..Len(slice_extractor_nodes(Get(h).size)) : TRUE}
              ELSE {})

\* one getter against a provider side that may fail, declare any size and
\* serve a file that was changed
GetNext ==
    \/ \E h \in Wanted, t \in Tokens : GetConnect("g1", h, t)
    \/ WriteHandshake("g1")
    \/ WriteRequest("g1")
    \/ ReadResponse("g1")
    \/ ReadData("g1")
    \/ AwaitTask("g1")
    \/ CloseWriter("g1")
    \/ GetterIoError("g1")
    \/ TaskRead("g1")
    \/ TaskWrite("g1")
    \/ CallerRead("g1")
    \/ PeerHandshake("g1")
    \/ \E d \in Declared(ghash["g1"]), b \in Changed(ghash["g1"]) :
            (d = Get(ghash["g1"]).size \/ b = 0) /\ PeerRequest("g1", d, b)
    \/ PeerCopy("g1")
    \/ PeerEnd("g1")
    \/ PeerFail("g1")

GetSpec == Init /\ [][GetNext]_vars

\* the same, with a caller that may drop the reader at any moment
DropNext ==
    \/ GetNext
    \/ CallerDrop("g1")

DropSpec == Init /\ [][DropNext]_vars

\* the blobs the getters of the fan-out ask for
Served == {"hB1", "hB2", "hB3"}

\* several getters with the provider's token ask one provider for the same
\* blob; nothing fails
FanNext ==
    \/ \E g \in Getters, h \in Served :
            /\ \A o \in Getters : ghash[o] \in {"-", h}
            /\ GetConnect(g, h, AuthToken)
    \/ \E g \in Getters : WriteHandshake(g)
    \/ \E g \in Getters : WriteRequest(g)
    \/ \E g \in Getters : ReadResponse(g)
    \/ \E g \in Getters : ReadData(g)
    \/ \E g \in Getters : AwaitTask(g)
    \/ \E g \in Getters : CloseWriter(g)
    \/ \E g \in Getters : TaskRead(g)
    \/ \E g \in Getters : TaskWrite(g)
    \/ \E g \in Getters : CallerRead(g)
    \/ \E g \in Getters : PeerHandshake(g)
    \/ \E g \in Getters : PeerRequest(g, Get(ghash[g]).size, 0)
    \/ \E g \in Getters : PeerCopy(g)
    \/ \E g \in Getters : PeerEnd(g)

FanSpec == Init /\ [][FanNext]_vars

\* ------------------------------------------------------------------------
\* Reading the wire and the histories
\* ------------------------------------------------------------------------

Last(q) == q[Len(q)]

\* The wire as a reader sees it: consecutive payload writes of one hash
\* are one run of bytes.
RECURSIVE Coalesce(_)
Coalesce(q) ==
    IF Len(q) < 2 THEN q
    ELSE LET rest == Coalesce(Tail(q)) IN
         IF Head(q).k = "data" /\ Head(rest).k = "data" /\ Head(q).of = Head(rest).of
         THEN <<Payload(Head(q).of, Head(q).n + Head(rest).n)>> \o Tail(rest)
         ELSE <<Head(q)>> \o rest

\* a is what has been written so far of b: the same items in order, the
\* last payload run possibly still short.
IsWrittenPartOf(a, b) ==
    /\ Len(a) <= Len(b)
    /\ \A i \in 1..Len(a) :
          \/ a[i] = b[i]
          \/ /\ i = Len(a)
             /\ a[i].k = "data" /\ b[i].k = "data"
             /\ a[i].of = b[i].of /\ a[i].n < b[i].n

\* the requests handle_stream has read on s, as announced by RequestReceived
Requests(s) == SelectSeq(emitted[s], LAMBDA e : e.type = "RequestReceived")

\* everything written on s since the last request was read
Written(s) == Coalesce(SubSeq(out[s], mark[s] + 1, Len(out[s])))

\* a request was read on s and no terminal event was sent for it yet: it
\* is being served, or the handler failed while serving it
Pending(s) == emitted[s] # <<>> /\ Last(emitted[s]).type = "RequestReceived"

\* the last request read on s was served to its end
Answered(s) == emitted[s] # <<>> /\ Last(emitted[s]).type # "RequestReceived"

\* the first child of a manifest that is no blob descriptor (0: none)
RECURSIVE FirstMissing(_, _)
FirstMissing(bs, i) ==
    IF i > Len(bs) THEN 0
    ELSE IF Get(bs[i]).kind # "Blob" THEN i
    ELSE FirstMissing(bs, i + 1)

\* One Response per child, a Found one followed by the child's encoding,
\* for the children i..last of bs.
RECURSIVE ChildrenOnWire(_, _, _, _)
ChildrenOnWire(id, bs, i, last) ==
    IF i > last THEN <<>>
    ELSE (IF Get(bs[i]).kind = "Blob"
          THEN <<Response(id, "Found", 0), Payload(bs[i], encoded_size(Get(bs[i]).size))>>
          ELSE <<Response(id, "NotFound", 0)>>)
         \o ChildrenOnWire(id, bs, i + 1, last)

\* FoundCollection, the manifest's encoding, then the children 1..last
CollectionOnWire(id, h, last) ==
    <<Response(id, "FoundCollection", Get(h).total_blobs_size),
      Payload(h, encoded_size(Get(h).size))>>
        \o ChildrenOnWire(id, Get(h).blobs, 1, last)

\* what the database holds under a hash, read off db itself
IsCollection(h) == h \in DOMAIN db /\ db[h].kind = "Collection"

IsBlob(h) == h \in DOMAIN db /\ db[h].kind = "Blob"

\* the last request read on s
LastRequest(s) == Last(Requests(s))

\* the children a collection's response covers: all of them, or those up to
\* and including the first one that is no blob descriptor
Covered(h) ==
    IF FirstMissing(Get(h).blobs, 1) = 0 THEN Len(Get(h).blobs)
    ELSE FirstMissing(Get(h).blobs, 1)

IsTerminal(e) == e.type \in {"TransferCompleted", "TransferAborted"}

\* ------------------------------------------------------------------------
\* C1: a stream whose first record is a Handshake with another version or
\* another token than the provider's, or that is closed before any record,
\* ends in error with nothing written on it and no RequestReceived sent for
\* it, and stays so: no request on it is ever served.
\* ------------------------------------------------------------------------

Rejected(h) ==
    \/ h.type = "None"
    \/ h.type = "Handshake" /\ (h.version # VERSION \/ h.token # AuthToken)

C1_RejectedHandshakeServesNothing ==
    \A s \in Streams :
        Rejected(handshake[s]) =>
            /\ pc[s] = "err"
            /\ out[s] = <<>>
            /\ emitted[s] = <<>>

C1_Witness ==
    \E s \in Streams :
        /\ handshake[s].type = "Handshake"
        /\ handshake[s].version = VERSION
        /\ handshake[s].token # AuthToken
        /\ pc[s] = "err"

\* ------------------------------------------------------------------------
\* C2, as claimed: the response to a collection request is FoundCollection
\* with the manifest's total_blobs_size, encoded_size(manifest length) bytes
\* of the manifest's encoding, and for EACH child of the manifest one
\* Response, a Found one followed by encoded_size(child size) bytes.
\* ------------------------------------------------------------------------

C2_EveryChildAnswered ==
    \A s \in Streams :
        (Answered(s) /\ IsCollection(LastRequest(s).hash)) =>
            Written(s) = CollectionOnWire(LastRequest(s).request_id, LastRequest(s).hash,
                                          Len(Get(LastRequest(s).hash).blobs))

\* C2, amended: the same, for each child up to and including the first one
\* that is no blob descriptor; while the response is being written, or when
\* the handler failed, the stream holds the part written so far and nothing
\* else.
C2_CollectionOnWire ==
    \A s \in Streams :
        (Requests(s) # <<>> /\ IsCollection(LastRequest(s).hash)) =>
            LET expected == CollectionOnWire(LastRequest(s).request_id, LastRequest(s).hash,
                                             Covered(LastRequest(s).hash))
            IN IF Answered(s)
               THEN Written(s) = expected
               ELSE IsWrittenPartOf(Written(s), expected)

C2_Witness ==
    \E s \in Streams :
        /\ Answered(s)
        /\ LastRequest(s).hash = "hColl"
        /\ Len(Written(s)) = 6

\* ------------------------------------------------------------------------
\* C3: when a child of the manifest is no blob descriptor in the database,
\* one NotFound Response is written for it and it is the last thing written
\* for the request; FoundCollection and the manifest were written before it.
\* ------------------------------------------------------------------------

ResponsesIn(w) == SelectSeq(w, LAMBDA x : x.k = "resp")

C3_MissingChildStopsCollection ==
    \A s \in Streams :
        (/\ Requests(s) # <<>>
         /\ IsCollection(LastRequest(s).hash)
         /\ FirstMissing(db[LastRequest(s).hash].blobs, 1) # 0) =>
            LET w == Written(s)
                k == FirstMissing(db[LastRequest(s).hash].blobs, 1)
            IN /\ \A i \in 1..Len(w) :
                     w[i].res = "NotFound" =>
                        /\ i = Len(w)
                        /\ i > 2
                        /\ w[1].res = "FoundCollection"
                        /\ w[2] = Payload(LastRequest(s).hash,
                                          encoded_size(db[LastRequest(s).hash].size))
                        /\ Len(ResponsesIn(w)) = k + 1
               /\ Answered(s) => Last(w).res = "NotFound"

C3_Witness ==
    \E s \in Streams :
        /\ Answered(s)
        /\ LastRequest(s).hash = "hCollM"
        /\ Last(Written(s)).res = "NotFound"
        /\ Len(db["hCollM"].blobs) > FirstMissing(db["hCollM"].blobs, 1)

\* ------------------------------------------------------------------------
\* C4, as claimed: the terminal event of a collection request is
\* TransferCompleted when every child was sent and TransferAborted when
\* serving stopped at a missing child.
\* ------------------------------------------------------------------------

C4_CompletedOnlyWhenAllSent ==
    \A s \in Streams :
        (Answered(s) /\ IsCollection(LastRequest(s).hash)) =>
            Last(emitted[s]).type =
                IF FirstMissing(db[LastRequest(s).hash].blobs, 1) = 0
                THEN "TransferCompleted"
                ELSE "TransferAborted"

\* ------------------------------------------------------------------------
\* C5: a request for a hash that is absent, or that is a blob descriptor,
\* is answered by one NotFound Response and nothing else, TransferAborted is
\* sent for it, and the handler is back at reading the next request; until
\* then nothing is written for it.
\* ------------------------------------------------------------------------

C5_NotFoundAnswer ==
    \A s \in Streams :
        (Requests(s) # <<>> /\ ~IsCollection(LastRequest(s).hash)) =>
            IF Pending(s)
            THEN Written(s) = <<>> /\ pc[s] \in {"respond", "err"}
            ELSE /\ Written(s) = <<Response(LastRequest(s).request_id, "NotFound", 0)>>
                 /\ Last(emitted[s]) =
                        Event("TransferAborted", ConnId(conn[s]), LastRequest(s).request_id, "-")

\* the step that answers such a request leaves the handler at the read of
\* the next request
C5_NotFoundStep ==
    \A s \in Streams :
        (pc[s] = "respond" /\ ~IsCollection(req[s].name) /\ out'[s] # out[s]) =>
            pc'[s] = "request"

CountBefore(i, e, types) ==
    Cardinality({j \in 1..(i - 1) :
                    /\ events[j].connection_id = e.connection_id
                    /\ events[j].request_id = e.request_id
                    /\ events[j].type \in types})

C7_ReceivedBeforeTerminal ==
    \A i \in 1..Len(events) :
        IsTerminal(events[i]) =>
            CountBefore(i, events[i], {"RequestReceived"})
                > CountBefore(i, events[i], {"TransferCompleted", "TransferAborted"})

\* a terminal event of a pair that an earlier request already used
C7_Witness ==
    \E i \in 1..Len(events) :
        /\ IsTerminal(events[i])
        /\ CountBefore(i, events[i], {"TransferCompleted", "TransferAborted"}) = 1

\* ------------------------------------------------------------------------
\* C8, as claimed: when the handler fails while it serves a request, that
\* is after RequestReceived and before a terminal event, TransferAborted is
\* sent for the request before the handler ends.
\* ------------------------------------------------------------------------

C8_ErrorEmitsAborted ==
    \A s \in Streams : pc[s] = "err" => ~Pending(s)

\* ------------------------------------------------------------------------
\* C9: the step in which one stream's handler ends in error changes nothing
\* of any other stream nor of the accept loop, and while a handler has ended
\* in error every other stream can take its next step: a handler that is
\* serving can write, an opened stream whose connection was accepted can be
\* accepted, a connection that was not yet accepted can be.
\* ------------------------------------------------------------------------

HandlerStep(t) == WriteTop(t) \/ WriteManifest(t) \/ SendBlob(t) \/ CopyBlob(t)

C9_ErrorStep ==
    \A s \in Streams :
        (pc[s] # "err" /\ pc'[s] = "err") =>
            /\ connected' = connected
            /\ \A t \in Streams \ {s} :
                  /\ pc'[t] = pc[t]
                  /\ out'[t] = out[t]
                  /\ inq'[t] = inq[t]
                  /\ emitted'[t] = emitted[t]
                  /\ <<req'[t], idx'[t], seg'[t]>> = <<req[t], idx[t], seg[t]>>

C9_OthersProceed ==
    \A s \in Streams : \A t \in Streams \ {s} :
        pc[s] = "err" =>
            /\ pc[t] \in {"respond", "manifest", "child", "copy"} => ENABLED HandlerStep(t)
            /\ pc[t] \in {"handshake", "request"} /\ Readable(t) =>
                    ENABLED (ReadHandshake(t) \/ ReadRequest(t))
            /\ (pc[t] = "idle" /\ conn[t] \in connected /\ Readable(t)) =>
                    ENABLED AcceptStream(t)
            /\ (Opened(t) /\ conn[t] \notin connected) => ENABLED AcceptConnection(conn[t])

C9_StreamErrorIsLocal == []C9_OthersProceed /\ [][C9_ErrorStep]_vars

\* one stream has ended in error while another one of the same connection
\* is being served, and has written since
C9_Witness ==
    \E s \in Streams : \E t \in Streams \ {s} :
        /\ conn[s] = conn[t]
        /\ pc[s] = "err"
        /\ pc[t] = "copy"

\* ------------------------------------------------------------------------
\* C10: when the handler reads a request, everything written on the stream
\* so far is the complete answers to the requests read before it, one after
\* the other in the order in which they were read; the stream as a whole is
\* those answers followed by what is written of the last one.
\* ------------------------------------------------------------------------

ExpectedAnswer(e) ==
    IF IsCollection(e.hash)
    THEN CollectionOnWire(e.request_id, e.hash, Covered(e.hash))
    ELSE <<Response(e.request_id, "NotFound", 0)>>

RECURSIVE AnswersOnWire(_)
AnswersOnWire(q) ==
    IF q = <<>> THEN <<>> ELSE ExpectedAnswer(Head(q)) \o AnswersOnWire(Tail(q))

C10_RequestsSerialized ==
    \A s \in Streams :
        Requests(s) # <<>> =>
            /\ Coalesce(SubSeq(out[s], 1, mark[s]))
                    = AnswersOnWire(SubSeq(Requests(s), 1, Len(Requests(s)) - 1))
            /\ IsWrittenPartOf(Coalesce(out[s]), AnswersOnWire(Requests(s)))

\* a second request was read after a collection had been served
C10_Witness ==
    \E s \in Streams :
        /\ Len(Requests(s)) = 2
        /\ IsCollection(Requests(s)[1].hash)
        /\ mark[s] >= 6
        /\ Len(out[s]) > mark[s]

\* ------------------------------------------------------------------------
\* C11: after a valid handshake the handler serves request after request on
\* the stream: the step that ends a request, whatever its outcome (the
\* collection sent, NotFound, stopped at a missing child), leaves the handler
\* at the read of the next request, and a step that writes a NotFound
\* Response never ends the handler. The handler leaves the loop with
\* success exactly when the client has closed its write half and no further
\* record has arrived: it has ended with success only then, at the read of a
\* request in that situation it can take the step, and the step ends it with
\* success.
\* ------------------------------------------------------------------------

ClientDone(s) == closed[s] /\ inq[s] = <<>>

C11_LoopLeft ==
    \A s \in Streams :
        /\ pc[s] = "ok" =>
                /\ HandshakeAccepted(handshake[s])
                /\ ClientDone(s)
                /\ ~Pending(s)
        /\ (pc[s] = "request" /\ Readable(s)) => ENABLED ReadRequest(s)

C11_LoopStep ==
    \A s \in Streams :
        /\ (emitted'[s] # emitted[s] /\ IsTerminal(Last(emitted'[s]))) => pc'[s] = "request"
        /\ (out'[s] # out[s] /\ Last(out'[s]).res = "NotFound") => pc'[s] = "request"
        /\ (pc[s] # "ok" /\ pc'[s] = "ok") => (pc[s] = "request" /\ ClientDone(s))
        /\ (pc[s] = "request" /\ ClientDone(s) /\ pc'[s] # pc[s]) => pc'[s] = "ok"

C11_RequestLoop == []C11_LoopLeft /\ [][C11_LoopStep]_vars

\* the handler has left the loop with success after it had served a request
C11_Witness ==
    \E s \in Streams :
        /\ pc[s] = "ok"
        /\ Len(Requests(s)) = 1
        /\ Answered(s)

\* ------------------------------------------------------------------------
\* C20: the database is at every moment the one the provider was built
\* with: no step of the accept loops or of a stream handler adds, removes or
\* changes an entry, so all handlers read the same entries.
\* ------------------------------------------------------------------------

C20_DatabaseReadOnly == db = InitialDatabase

\* a handler has served a collection from the database while the handler of
\* another stream was running
C20_Witness ==
    \E s \in Streams : \E t \in Streams \ {s} :
        /\ Answered(s)
        /\ IsCollection(LastRequest(s).hash)
        /\ pc[t] = "request"

\* ------------------------------------------------------------------------
\* Reading a getter's run
\* ------------------------------------------------------------------------

\* the place of an event in the order of a run
Rank(t) ==
    CASE t = "Connected" -> 1
      [] t = "Requested" -> 2
      [] t = "Receiving" -> 3
      [] t = "Done"      -> 4
      [] OTHER           -> 5

ItemsOf(g, t) == SelectSeq(items[g], LAMBDA x : x.type = t)

\* the getter has read a Response record of this kind as its first
FirstResponse(g) == IF wire[g] = <<>> THEN "-" ELSE wire[g][1].res

\* the first node of the buffer that does not match the hash (0: none)
BadAt(g) ==
    IF \A j \in 1..Len(buffer[g]) : buffer[g][j].good THEN 0
    ELSE CHOOSE j \in 1..Len(buffer[g]) :
            /\ ~buffer[g][j].good
            /\ \A i \in 1..(j - 1) : buffer[g][i].good

\* the content bytes of the chunk nodes of q, as runs
RECURSIVE ChunkRuns(_)
ChunkRuns(q) ==
    IF q = <<>> THEN <<>>
    ELSE IF Head(q).kind = "chunk"
         THEN <<[chunk |-> Head(q).chunk, n |-> Head(q).n]>> \o ChunkRuns(Tail(q))
         ELSE ChunkRuns(Tail(q))

\* the bytes a are the first bytes of b
IsPrefixOfRuns(a, b) ==
    /\ Len(a) <= Len(b)
    /\ \A i \in 1..Len(a) :
          \/ a[i] = b[i]
          \/ i = Len(a) /\ a[i].chunk = b[i].chunk /\ a[i].n <= b[i].n

\* what the reader has handed or holds ready for the caller
Handed(g) == Join(got[g], pipe[g])

\* ------------------------------------------------------------------------
\* C12: the items a run of get::run yields are, in this order: Connected,
\* at most one Requested, Receiving events, Done; Connected comes first
\* and once, Done at most once and as the last item, and an error item is
\* the last item too: nothing is yielded after Done or after an error.
\* ------------------------------------------------------------------------

C12_EventOrder ==
    \A g \in Getters :
        LET q == items[g] IN
        /\ \A i \in 1..Len(q) : \A j \in (i + 1)..Len(q) :
              /\ Rank(q[i].type) <= Rank(q[j].type)
              /\ q[i].type \notin {"Done", "Error"}
        /\ \A i \in 1..Len(q) :
              /\ q[i].type = "Connected" => i = 1
              /\ (q[i].type \in {"Requested", "Receiving", "Done"}) => q[1].type = "Connected"
        /\ Len(ItemsOf(g, "Requested")) <= 1
        /\ Len(ItemsOf(g, "Done")) <= 1
        /\ q # <<>> => gpc[g] # "init"
        /\ (q # <<>> /\ q[Len(q)].type \in {"Done", "Error"}) => gpc[g] = "end"

\* a run that ended with an error item after it had yielded Receiving
C12_Witness ==
    \E g \in Getters :
        /\ Len(items[g]) = 4
        /\ items[g][3].type = "Receiving"
        /\ items[g][4].type = "Error"
        /\ gpc[g] = "end"

\* ------------------------------------------------------------------------
\* C13: when the first Response is NotFound, the run yields Connected and
\* then one error item and is over; no Requested, Receiving or Done is
\* yielded, no payload byte is read and no decode task is started.
\* ------------------------------------------------------------------------

C13_NotFoundEnds ==
    \A g \in Getters :
        FirstResponse(g) = "NotFound" =>
            /\ \/ gpc[g] = "response" /\ items[g] = <<Item("Connected", "-", 0, "-")>>
               \/ /\ gpc[g] = "end"
                  /\ Len(items[g]) = 2
                  /\ items[g][1].type = "Connected"
                  /\ items[g][2].type = "Error"
                  /\ items[g][2].why \in {"data not found", "io"}
            /\ taken[g] = 0
            /\ dpc[g] = "none"
            /\ Handed(g) = <<>>

C13_Witness ==
    \E g \in Getters :
        /\ FirstResponse(g) = "NotFound"
        /\ gpc[g] = "end"
        /\ items[g][2].why = "data not found"

\* ------------------------------------------------------------------------
\* C14: what the getter has written on its stream is at every moment the
\* first records of: one Handshake with the current version and the
\* caller's token, one Request with id 1 and the requested hash. Both are
\* written when it reads a Response, and nothing else is written before
\* the write half is closed.
\* ------------------------------------------------------------------------

C14_HandshakeThenRequest ==
    \A g \in Getters :
        LET both == <<Handshake(VERSION, gtoken[g]), Request(1, ghash[g])>> IN
        /\ Len(wrote[g]) <= 2
        /\ wrote[g] = SubSeq(both, 1, Len(wrote[g]))
        /\ (gpc[g] \in {"response", "requested", "receiving", "close", "panic"}
                \/ gclosed[g] \/ ItemsOf(g, "Requested") # <<>>) => wrote[g] = both

\* the half was closed after the two records
C14_Witness ==
    \E g \in Getters :
        /\ gclosed[g]
        /\ Len(wrote[g]) = 2

\* ------------------------------------------------------------------------
\* C15: when the size of the Found response exceeds MAX_DATA_SIZE, the run
\* ends with the error item right after Requested: no payload byte is
\* read, no decode task is started, no Receiving and no Done is yielded. A
\* size equal to MAX_DATA_SIZE is not refused.
\* ------------------------------------------------------------------------

C16_ReceivingPerChild ==
    \A g \in Getters :
        (/\ FirstResponse(g) = "FoundCollection"
         /\ gpc[g] = "end"
         /\ items[g][Len(items[g])].why # "io") =>
            LET rs == ItemsOf(g, "Receiving")
                bs == Get(ghash[g]).blobs
            IN /\ Len(rs) = Len(bs)
               /\ \A i \in 1..Len(bs) : rs[i].hash = bs[i]
               /\ items[g][Len(items[g])].type = "Done"

\* ------------------------------------------------------------------------
\* C17: the bytes the reader has handed to the caller, or holds for it, are
\* the first bytes of the content of the chunks that precede the first node
\* of the received encoding that does not match the hash, and they are
\* bytes of the file in the file's order. When a node does not match, the
\* decode task does not end well, Done is not yielded, and the run ends
\* with an error item.
\* ------------------------------------------------------------------------

C17_OnlyVerifiedBytes ==
    \A g \in Getters :
        /\ IsPrefixOfRuns(Handed(g),
                IF BadAt(g) = 0 THEN ChunkRuns(buffer[g])
                ELSE ChunkRuns(SubSeq(buffer[g], 1, BadAt(g) - 1)))
        /\ ghash[g] \in DOMAIN db => IsPrefixOfRuns(Handed(g), FileRuns(db[ghash[g]].size))
        /\ BadAt(g) # 0 =>
              /\ dpc[g] # "ok"
              /\ ItemsOf(g, "Done") = <<>>
              /\ gpc[g] \in {"receiving", "end"}
              /\ gpc[g] = "end" => items[g][Len(items[g])].type = "Error"

\* the second chunk was changed: the first one was handed on, then the
\* run ended with an error
C17_Witness ==
    \E g \in Getters :
        /\ BadAt(g) # 0
        /\ got[g] = <<[chunk |-> 1, n |-> CHUNK_SIZE]>>
        /\ ReaderAtEnd(g)
        /\ gpc[g] = "end"

\* ------------------------------------------------------------------------
\* C18: for a file shorter than a chunk, of exactly a chunk, of more than a
\* chunk (more than the pipe holds) and of more than two chunks: when the
\* provider serves the unchanged file under the requested hash and the
\* caller has read the reader to its end, the caller has got exactly the
\* file's bytes in order; the Receiving event carries the requested hash.
\* ------------------------------------------------------------------------

GetterStep(g) ==
    \/ WriteHandshake(g) \/ WriteRequest(g) \/ ReadResponse(g) \/ ReadData(g)
    \/ AwaitTask(g) \/ CloseWriter(g) \/ TaskRead(g) \/ TaskWrite(g) \/ CallerRead(g)
    \/ PeerHandshake(g) \/ PeerRequest(g, Get(ghash[g]).size, 0) \/ PeerCopy(g)

CutShort(g) ==
    /\ FirstResponse(g) = "Found"
    /\ ~TooLarge(wire[g][1].total)
    /\ Gone(g)
    /\ TotalLen(Arrived(g)) < encoded_size(wire[g][1].total)

C29_TruncatedIsError ==
    \A g \in Getters :
        CutShort(g) =>
            /\ gpc[g] # "panic"
            /\ ItemsOf(g, "Done") = <<>>
            /\ Over(g) => items[g][Len(items[g])].type = "Error"

\* ------------------------------------------------------------------------
\* C30, as claimed: when the caller has dropped the reader of the Receiving
\* event before it had read the content to the end (and before the event
\* sequence was over), the run yields no Done, and once it is over its last
\* item is an error item.
\* ------------------------------------------------------------------------

C30_DroppedReaderIsError ==
    \A g \in Getters :
        dropped[g] = "early" =>
            /\ ItemsOf(g, "Done") = <<>>
            /\ gpc[g] = "end" => items[g][Len(items[g])].type = "Error"

\* ------------------------------------------------------------------------
\* C28, as claimed: once Provider::abort was called, no connection is
\* accepted, no stream handler takes a step, nothing is written on any
\* stream and no event is sent.
\* ------------------------------------------------------------------------

C28_AbortStopsAll ==
    [][aborted =>
          /\ connected' = connected
          /\ pc' = pc
          /\ out' = out
          /\ events' = events]_vars

\* ------------------------------------------------------------------------
\* C27: sending an event never blocks and never fails the task that sends
\* it. Whether there is no subscriber, a subscriber that keeps up or one
\* that has fallen more than the backlog behind: a task whose next step
\* sends an event can take that step and goes on; what a handler has
\* written is the answer to the requests it has read; a step of a
\* subscriber changes nothing of the provider; and a receiver that has
\* fallen behind the backlog is told how many events it lost, the oldest
\* ones, and goes on with the oldest event kept.
\* ------------------------------------------------------------------------

\* the next step of the task of stream s sends an event
SendsNext(s) ==
    \/ pc[s] = "idle" /\ conn[s] \in connected /\ Readable(s)
    \/ /\ pc[s] = "request" /\ inq[s] # <<>>
       /\ Head(inq[s]).type = "Request"
       /\ Serves(Head(inq[s]).name) => Get(Head(inq[s]).name).parses
    \/ pc[s] = "respond" /\ ~Serves(req[s].name)
    \/ pc[s] = "child" /\ Status(Get(req[s].name).blobs[idx[s]]) = "NotFound"
    \/ /\ pc[s] = "copy"
       /\ idx[s] = Len(Get(req[s].name).blobs)
       /\ seg[s] = Len(slice_extractor_reads(Get(Get(req[s].name).blobs[idx[s]]).size))

\* that step: the event is sent and the task goes on
SendStep(s) ==
    /\ AcceptStream(s) \/ ReadRequest(s) \/ HandlerStep(s)
    /\ Len(events') = Len(events) + 1
    /\ pc'[s] # "err"

C27_NeverBlocks ==
    \A s \in Streams :
        /\ SendsNext(s) => ENABLED SendStep(s)
        /\ (pc[s] # "err" /\ Requests(s) # <<>>) =>
              IsWrittenPartOf(Coalesce(out[s]), AnswersOnWire(Requests(s)))

C27_SubscriberStep ==
    \A u \in Subscribers :
        <<subscribed, cursor, seen>>' # <<subscribed, cursor, seen>> =>
            /\ UNCHANGED pvars
            /\ seen'[u] # seen[u] =>
                  IF Len(events) - cursor[u] > CHANNEL_CAPACITY
                  THEN /\ seen'[u] = Append(seen[u],
                                        Lagged(Len(events) - cursor[u] - CHANNEL_CAPACITY))
                       /\ cursor'[u] = Len(events) - CHANNEL_CAPACITY
                  ELSE /\ seen'[u] = Append(seen[u], Received(events[cursor[u] + 1]))
                       /\ cursor'[u] = cursor[u] + 1

C27_EventsNeverBlock == []C27_NeverBlocks /\ [][C27_SubscriberStep]_vars

\* a subscriber fell more than the backlog behind and was told so, while
\* the handler has answered all the requests and waits for the next
C27_Witness ==
    \E u \in Subscribers :
        /\ seen[u] # <<>>
        /\ seen[u][1].lagged > 0
        /\ pc["s1"] = "request"
        /\ Len(Requests("s1")) = 4
        /\ Answered("s1")

\* ------------------------------------------------------------------------
\* C21: the manifest of create_collection
\* ------------------------------------------------------------------------

\* the call returned Ok
Built == bpc = "done"

\* the content hash of the file of the j-th source
SourceHash(j) == FileDigest(fs[data_sources[j].path].content)

\* the manifest lists one blob per source, in the order of the sources,
\* each with the content hash of its file
OnePerSource ==
    /\ Len(blobs) = Len(data_sources)
    /\ \A j \in 1..Len(blobs) : blobs[j].hash = SourceHash(j)

RegularFile(j) == fs[data_sources[j].path].kind = "file"

\* C22: when any data source of a call does not refer to a regular file,
\* the call fails with an error and returns no database and no root hash,
\* however many earlier sources were already hashed and inserted: the loop
\* never gets past such a source, and a call that has returned with such a
\* source in its list has returned Err.
C22_NotRegularFails ==
    /\ bpc \in {"loop", "outboard", "done"} =>
          \A j \in 1..Len(data_sources) : j < bi => RegularFile(j)
    /\ bpc = "outboard" => RegularFile(bi)
    /\ (bpc \in {"done", "err"} /\ \E j \in 1..Len(data_sources) : ~RegularFile(j)) =>
          /\ bpc = "err"
          /\ ret = Err
          /\ ret.db = <<>>
          /\ new_db = <<>>

\* a call that failed at its second source, a directory, after its first
\* source was hashed and inserted
C22_Witness ==
    /\ bpc = "err"
    /\ bi = 2
    /\ RegularFile(1)
    /\ ~RegularFile(2)
    /\ ret.st = "Err"

\* ------------------------------------------------------------------------
\* C23: create_collection is deterministic
\* ------------------------------------------------------------------------

\* a call has returned and a call before it has returned
TwoCalls == prev # NoCall /\ bpc \in {"done", "err"}

\* what a list of sources says about the blobs: per source its name, as
\* given or as derived from the path, and its content
Described(srcs) ==
    [j \in 1..Len(srcs) |->
        [name |-> IF srcs[j].name.some THEN srcs[j].name.v
                  ELSE IF \A i \in 1..Len(FileName(srcs[j].path)) : FileName(srcs[j].path)[i] < 128
                       THEN FileName(srcs[j].path)
                       ELSE <<>>,
         content |-> fs[srcs[j].path].content]]

\* the manifest bytes a successful call hashed: the data of the entry
\* under its root hash
Manifest(r) == r.db[r.hash].data

C24_DatabaseClosed ==
    Built =>
        /\ ret.st = "Ok"
        /\ ret.hash \in DOMAIN ret.db
        /\ ret.db[ret.hash].kind = "Collection"
        /\ from_bytes(ret.db[ret.hash].data) =
              Parsed(Collection(CollectionName, blobs, total_blobs_size), <<>>)
        /\ \A j \in 1..Len(blobs) :
              /\ blobs[j].hash \in DOMAIN ret.db
              /\ ret.db[blobs[j].hash].kind = "Blob"
        /\ Cardinality(DOMAIN ret.db) <= Len(data_sources) + 1

\* a database of two entries, built from two sources of one content
C24_Witness ==
    /\ Built
    /\ Len(data_sources) = 2
    /\ Cardinality(DOMAIN ret.db) = 2
    /\ from_bytes(Manifest(ret)).ok
    /\ Len(from_bytes(Manifest(ret)).v.blobs) = 2

\* ------------------------------------------------------------------------
\* C25: sizes
\* ------------------------------------------------------------------------

\* the sum of the sizes the database holds for the listed blobs, each
\* entry of the list counted
RECURSIVE SumOfSizes(_, _)
SumOfSizes(bs, d) ==
    IF bs = <<>> THEN 0 ELSE d[Head(bs).hash].size + SumOfSizes(Tail(bs), d)

\* C25: the size of every blob descriptor create_collection inserts is the
\* little-endian length in the first 8 bytes of its outboard, which is the
\* length of the file, and total_blobs_size is the sum of the sizes of the
\* listed blobs, a content that is listed twice counted twice; the
\* manifest of a successful call carries that sum.
C25_SizesAdd ==
    /\ \A h \in DOMAIN new_db :
          new_db[h].kind = "Blob" =>
              /\ Len(new_db[h].outboard.header) = HEADER_SIZE
              /\ new_db[h].size =
                    new_db[h].outboard.header[1] + 256 * new_db[h].outboard.header[2]
                        + 65536 * new_db[h].outboard.header[3]
              /\ \A i \in 4..HEADER_SIZE : new_db[h].outboard.header[i] = 0
              /\ new_db[h].size = ContentLen(fs[new_db[h].path].content)
    /\ bpc \in {"loop", "outboard", "done"} =>
          total_blobs_size = SumOfSizes(blobs, new_db)
    /\ Built =>
          /\ from_bytes(Manifest(ret)).ok
          /\ from_bytes(Manifest(ret)).v.total_blobs_size = SumOfSizes(blobs, ret.db)

\* a manifest of two sources of one content of 12 bytes, and one of a
\* content of more than one chunk
C25_Witness ==
    /\ Built
    /\ Len(blobs) = 2
    /\ \/ blobs[1].hash = blobs[2].hash /\ total_blobs_size = 24
       \/ total_blobs_size = 1037

\* ------------------------------------------------------------------------
\* A ticket is displayed, its string is passed on, and parsed
\* ------------------------------------------------------------------------

\* ticket.to_string()
Display(t) ==
    /\ ticket = NoTicket
    /\ ticket' = t
    /\ shown' = to_string(t)
    /\ UNCHANGED <<pvars, gvars, mvars, svars, bvars, aborted, dropped, damage, parsed>>

\* on its way the string gets a character that is not in the alphabet
Corrupt(i) ==
    /\ ticket # NoTicket
    /\ damage = "none"
    /\ parsed = NotYet
    /\ i \in 1..Len(shown)
    /\ shown' = [shown EXCEPT ![i] = NoSymbol]
    /\ damage' = "invalid"
    /\ UNCHANGED <<pvars, gvars, mvars, svars, bvars, aborted, dropped, ticket, parsed>>

\* on its way the string loses its end
Truncate(k) ==
    /\ ticket # NoTicket
    /\ damage = "none"
    /\ parsed = NotYet
    /\ k \in 0..(Len(shown) - 1)
    /\ shown' = SubSeq(shown, 1, k)
    /\ damage' = "truncated"
    /\ UNCHANGED <<pvars, gvars, mvars, svars, bvars, aborted, dropped, ticket, parsed>>

\* shown.parse::<Ticket>()
Parse ==
    /\ ticket # NoTicket
    /\ parsed = NotYet
    /\ parsed' = from_str(shown)
    /\ UNCHANGED <<pvars, gvars, mvars, svars, bvars, aborted, dropped, ticket, shown, damage>>

TicketNext ==
    \/ \E t \in Tickets : Display(t)
    \/ \E i \in 1..Len(shown) : Corrupt(i)
    \/ \E k \in 0..(Len(shown) - 1) : Truncate(k)
    \/ Parse

TicketSpec == Init /\ [][TicketNext]_vars

\* ------------------------------------------------------------------------
\* C26: the ticket round trip
\* ------------------------------------------------------------------------

\* C26: for every Ticket, parsing the string its Display form produced
\* gives a Ticket equal to the original in all four fields; a string with
\* a character outside the alphabet or with a truncated payload fails to
\* parse and gives no ticket.
C26_TicketRoundTrip ==
    parsed # NotYet =>
        /\ damage = "none" => parsed = OkTicket(ticket)
        /\ damage # "none" => parsed = ErrTicket

\* ------------------------------------------------------------------------
\* C39: a file that changes while it is hashed
\* ------------------------------------------------------------------------

\* every blob descriptor of the database d has the size of the content
\* that was hashed for it
SizesAsHashed(d) ==
    \A h \in DOMAIN d :
        d[h].kind = "Blob" =>
            /\ h.src = "file"
            /\ d[h].size = ContentLen(h.id)
            /\ from_le_bytes(d[h].outboard.header) = ContentLen(h.id)

\* the step of compute_outboard that has copied the file into the encoder
EncodedStep == bpc = "outboard" /\ bpc' # "outboard"

\* the file of the source at hand no longer has the length its metadata had
LengthDiffers == ContentLen(fs[data_sources[bi].path].content) # flen

C39_ChangedStep ==
    (EncodedStep /\ LengthDiffers) =>
        /\ bpc' = "err"
        /\ ret' = Err
        /\ new_db' = <<>>

\* C39: when the number of bytes the encoder consumed from a source file
\* differs from the length read from the file's metadata before encoding,
\* compute_outboard returns an error and create_collection fails without
\* returning a database; no blob descriptor with a size different from
\* its hashed content is ever stored.
C39_FileChangeIsFatal ==
    /\ [](SizesAsHashed(new_db) /\ SizesAsHashed(ret.db))
    /\ [][C39_ChangedStep]_vars

\* a call on regular files only that failed at its second source, after
\* the first was hashed and inserted
C39_Witness ==
    /\ bpc = "err"
    /\ bi = 2
    /\ \A j \in 1..Len(data_sources) : fs[data_sources[j].path].kind = "file"
    /\ LengthDiffers

\* ------------------------------------------------------------------------
\* C32: every request is answered, however the bytes arrive
\* ------------------------------------------------------------------------

\* the top-level Responses written on s
TopLevel(s) == SelectSeq(out[s], LAMBDA x : x.k = "resp" /\ x.res \in {"FoundCollection", "NotFound"})

\* the handler of s waits for a request and there is nothing for it to
\* read: every record the client wrote has left the stream
Waits(s) == pc[s] = "request" /\ inq[s] = <<>> /\ in_buffer[s] = 0

\* the Request records the client has written on s
RequestsWritten == IF sent = 0 THEN 0 ELSE sent - 1

\* C32: every Request the client writes after a valid handshake and
\* before half-closing is read by the provider and answered with exactly
\* one top-level Response, however the transport splits or coalesces the
\* bytes into reads, also when the bytes of a second request arrive in
\* the same read as the first: a handler that has nothing left to read
\* has written one top-level Response per request the client wrote.
C32_EveryRequestAnswered ==
    Waits("s1") => Len(TopLevel("s1")) = RequestsWritten

\* ------------------------------------------------------------------------
\* C33: at most one terminal event per request
\* ------------------------------------------------------------------------

\* the terminal events the handler of s sent after its i-th event and
\* before its next RequestReceived
RECURSIVE TerminalsAfter(_, _)
TerminalsAfter(s, i) ==
    IF i >= Len(emitted[s]) \/ ~IsTerminal(emitted[s][i + 1]) THEN <<>>
    ELSE <<emitted[s][i + 1]>> \o TerminalsAfter(s, i + 1)

\* C33: for every request read on a provider stream at most one terminal
\* event is emitted: TransferCompleted and TransferAborted are never both
\* emitted for the same RequestReceived, and neither is emitted twice.
C33_OneTerminal ==
    \A s \in Streams :
        \A i \in 1..Len(emitted[s]) :
            emitted[s][i].type = "RequestReceived" =>
                /\ Len(TerminalsAfter(s, i)) <= 1
                /\ \A j \in 1..Len(TerminalsAfter(s, i)) :
                      /\ TerminalsAfter(s, i)[j].request_id = emitted[s][i].request_id
                      /\ TerminalsAfter(s, i)[j].connection_id = emitted[s][i].connection_id

\* a stream on which one request was completed and the next one aborted
C33_Witness ==
    \E s \in Streams :
        /\ Len(emitted[s]) = 4
        /\ emitted[s][2].type = "TransferCompleted"
        /\ emitted[s][4].type = "TransferAborted"

\* ------------------------------------------------------------------------
\* C34: the ids on the wire and on the event bus
\* ------------------------------------------------------------------------

\* the handler of s is serving a request it has read
Serving(s) == pc[s] \in {"respond", "manifest", "child", "copy"}

C34_IdsAgree ==
    \A s \in Streams :
        /\ \A k \in 1..Len(out[s]) :
              (k > mark[s] /\ out[s][k].k = "resp") =>
                  /\ Requests(s) # <<>>
                  /\ out[s][k].id = LastRequest(s).request_id
        /\ Serving(s) =>
              /\ Requests(s) # <<>>
              /\ LastRequest(s).request_id = req[s].id
              /\ LastRequest(s).hash = req[s].name
        /\ \A i \in 1..Len(emitted[s]) :
              /\ emitted[s][i].connection_id = ConnId(conn[s])
              /\ IsTerminal(emitted[s][i]) =>
                    /\ i > 1
                    /\ emitted[s][i - 1].type = "RequestReceived"
                    /\ emitted[s][i].request_id = emitted[s][i - 1].request_id

C34_WriteStep ==
    \A s \in Streams :
        /\ (out'[s] # out[s] /\ Last(out'[s]).k = "resp") =>
              /\ Serving(s)
              /\ Last(out'[s]).id = req[s].id
        /\ (emitted'[s] # emitted[s] /\ IsTerminal(Last(emitted'[s]))) =>
              /\ Serving(s)
              /\ Last(emitted'[s]).request_id = req[s].id

\* C34: every Response the provider writes while it serves a request
\* (the top-level FoundCollection or NotFound, each child's Found or
\* NotFound) carries the id of the Request being served on that stream,
\* and the RequestReceived and the terminal event for it carry the same
\* id and the connection id of the stream.
C34_SameIdEverywhere == []C34_IdsAgree /\ [][C34_WriteStep]_vars

\* a request with id 2 for a collection was served to its end: the
\* responses for it and for its children are on the wire
C34_Witness ==
    \E s \in Streams :
        /\ Requests(s) # <<>>
        /\ LastRequest(s).request_id = 2
        /\ Last(emitted[s]).type = "TransferCompleted"
        /\ Len(ResponsesIn(SubSeq(out[s], mark[s] + 1, Len(out[s])))) = 3

\* ------------------------------------------------------------------------
\* C35: ClientConnected
\* ------------------------------------------------------------------------

\* the streams of connection c that were accepted
Accepted(c) == {s \in Streams : conn[s] = c /\ pc[s] # "idle"}

\* the places of the ClientConnected events of connection c on the bus
ConnectedAt(c) ==
    {i \in 1..Len(events) :
        events[i].type = "ClientConnected" /\ events[i].connection_id = ConnId(c)}

C35_OncePerStream ==
    /\ \A c \in Conns : Cardinality(ConnectedAt(c)) = Cardinality(Accepted(c))
    /\ \A s \in Streams : pc[s] = "idle" => emitted[s] = <<>>

C35_ConnectedStep ==
    \A s \in Streams :
        /\ (pc[s] = "idle" /\ pc'[s] # "idle") =>
              /\ events' = Append(events, Event("ClientConnected", ConnId(conn[s]), 0, "-"))
              /\ emitted'[s] = <<>>
        /\ emitted'[s] # emitted[s] => pc[s] # "idle"

\* C35: the provider emits ClientConnected once for every accepted
\* bidirectional stream (so several times for a connection that opens
\* several streams), and for each stream that ClientConnected is emitted
\* before any RequestReceived, TransferCompleted or TransferAborted of a
\* request served on that stream.
C35_ConnectedFirst == []C35_OncePerStream /\ [][C35_ConnectedStep]_vars

\* two streams of one connection were accepted, a request was read on one
C35_Witness ==
    /\ conn["s1"] = conn["s2"]
    /\ Accepted(conn["s1"]) = {"s1", "s2"}
    /\ Cardinality(ConnectedAt(conn["s1"])) = 2
    /\ \E s \in Streams : emitted[s] # <<>>

\* ------------------------------------------------------------------------
\* C36: the worker of send_blob is the only writer while it copies
\* ------------------------------------------------------------------------

\* the child the handler of s is sending
ChildAtHand(s) == Get(req[s].name).blobs[idx[s]]

\* on the wire of s, every Found is directly followed by the bytes of one
\* blob's encoding, all of them before anything else is written; only the
\* last Found of a handler that is still copying, or that failed, may have
\* fewer
C36_PayloadContiguous ==
    \A s \in Streams :
        LET w == Coalesce(out[s]) IN
        \A k \in 1..Len(w) :
            (w[k].k = "resp" /\ w[k].res = "Found") =>
                IF k = Len(w) THEN pc[s] \in {"copy", "err"}
                ELSE /\ w[k + 1].k = "data"
                     /\ IsBlob(w[k + 1].of)
                     /\ w[k + 1].n <= encoded_size(Get(w[k + 1].of).size)
                     /\ w[k + 1].n < encoded_size(Get(w[k + 1].of).size) =>
                            /\ k + 1 = Len(w)
                            /\ pc[s] \in {"copy", "err"}

\* while the worker copies, whatever is written on the stream is the next
\* bytes of the child at hand, and nothing is read from the stream
C36_WorkerStep ==
    \A s \in Streams :
        pc[s] = "copy" =>
            /\ out'[s] # out[s] =>
                  /\ Len(out'[s]) = Len(out[s]) + 1
                  /\ SubSeq(out'[s], 1, Len(out[s])) = out[s]
                  /\ Last(out'[s]).k = "data"
                  /\ Last(out'[s]).of = ChildAtHand(s)
            /\ emitted'[s] # emitted[s] => out'[s] # out[s]
            /\ (pc'[s] = "child" /\ idx'[s] # idx[s]) =>
                  Coalesce(out'[s])[Len(Coalesce(out'[s]))].n
                      = encoded_size(Get(ChildAtHand(s)).size)

\* C36: while the blocking worker of send_blob copies a blob's encoding
\* to the stream it is the only writer of that stream: the handler writes
\* nothing else until the worker has returned the writer, so a child's
\* payload bytes are contiguous and directly follow that child's Found
\* record, and the next child's Response is written only after the
\* previous child's payload is complete.
C36_WorkerOwnsWriter == []C36_PayloadContiguous /\ [][C36_WorkerStep]_vars

\* the second child's Found was written after the first child's payload,
\* and the worker is copying the second child in several writes
C36_Witness ==
    \E s \in Streams :
        /\ pc[s] = "copy"
        /\ idx[s] = 2
        /\ seg[s] > 1
        /\ Len(SelectSeq(out[s], LAMBDA x : x.k = "resp" /\ x.res = "Found")) = 2

\* ------------------------------------------------------------------------
\* C38: Done comes after the decode task and the close of the writer
\* ------------------------------------------------------------------------

\* a getter that has yielded Done: its task ended Ok with nothing left to
\* write, its write half is closed, and Done is the last item, after no
\* error item
C38_DoneAfterTaskAndClose ==
    \A g \in Getters :
        ItemsOf(g, "Done") # <<>> =>
            /\ dpc[g] = "ok"
            /\ dbuf[g] = NoBytes
            /\ decoder_read(g, dpos[g]).st = "eof"
            /\ gclosed[g]
            /\ Len(ItemsOf(g, "Done")) = 1
            /\ Last(items[g]).type = "Done"
            /\ ItemsOf(g, "Error") = <<>>

\* what the getter does once the task has ended: a failed task gives an
\* error item and the end of the sequence; from the close of the writer
\* the sequence ends with Done and a closed writer, or with an error item
C38_EndStep ==
    \A g \in Getters :
        /\ (gpc[g] = "receiving" /\ gpc'[g] # gpc[g]) =>
              IF dpc[g] = "ok"
              THEN gpc'[g] = "close" /\ items'[g] = items[g]
              ELSE /\ dpc[g] = "err"
                   /\ gpc'[g] = "end"
                   /\ Last(items'[g]).type = "Error"
                   /\ Len(items'[g]) = Len(items[g]) + 1
        /\ (gpc[g] = "close" /\ gpc'[g] # gpc[g]) =>
              /\ gpc'[g] = "end"
              /\ Len(items'[g]) = Len(items[g]) + 1
              /\ \/ Last(items'[g]).type = "Done" /\ gclosed'[g]
                 \/ Last(items'[g]).type = "Error" /\ ~gclosed'[g]
        /\ ItemsOf(g, "Done")' # ItemsOf(g, "Done") => gpc[g] = "close"

\* C38: the getter yields Done only after the decode task has finished
\* without error (all content verified and written to the reader) and
\* after the getter has closed its write half of the stream; when the
\* decode task fails or closing the writer fails, an error item is
\* yielded instead of Done.
C38_DoneIsLast == []C38_DoneAfterTaskAndClose /\ [][C38_EndStep]_vars

\* Done was yielded for a blob of several chunks
C38_Witness ==
    /\ ItemsOf("g1", "Done") # <<>>
    /\ gclosed["g1"]
    /\ dpos["g1"] > 3

\* ------------------------------------------------------------------------
\* test_to_from_bytes: a message through as_bytes and from_bytes
\* ------------------------------------------------------------------------

\* a case of the test is taken up
TestCase(m) ==
    /\ test_m = NoMessage
    /\ test_m' = m
    /\ UNCHANGED <<pvars, gvars, svars, bvars, tvars, aborted, dropped, test_got,
                   test_back>>

\* let got = test.m.as_bytes()
AsBytes ==
    /\ test_m # NoMessage
    /\ test_got = <<>>
    /\ test_got' = Message_as_bytes(test_m)
    /\ UNCHANGED <<pvars, gvars, svars, bvars, tvars, aborted, dropped, test_m,
                   test_back>>

\* let back = Message::from_bytes(&got)
FromBytes ==
    /\ test_got # <<>>
    /\ test_back = NotRun
    /\ test_back' = Message_from_bytes(test_got)
    /\ UNCHANGED <<pvars, gvars, svars, bvars, tvars, aborted, dropped, test_m,
                   test_got>>

DiscoNext ==
    \/ \E m \in Messages : TestCase(m)
    \/ AsBytes
    \/ FromBytes

DiscoSpec == Init /\ [][DiscoNext]_vars

\* ------------------------------------------------------------------------
\* C31: the round trip of discovery messages
\* ------------------------------------------------------------------------

\* an address the 18 bytes tell from every other: an IPv4 address, or an
\* IPv6 address that is not IPv4-mapped and has flowinfo 0 and scope_id 0
IsCanonical(a) == ~a.v6 \/ (~is_mapped(a.ip) /\ a.flowinfo = 0 /\ a.scope_id = 0)

\* the addresses of a message
AddrsOf(m) ==
    (IF m.type = "Pong" THEN {m.src} ELSE {})
    \cup {m.my_number[k] : k \in 1..Len(m.my_number)}

\* C31: for every discovery Message (Ping, Pong with an IPv4 or IPv6
\* source address, CallMeMaybe with any list of socket addresses,
\* including the empty list), Message::from_bytes(m.as_bytes()) succeeds
\* and returns a message equal to m.
C31_EveryMessageRoundTrips ==
    test_back # NotRun => test_back = OkMessage(test_m)

\* C31, amended: from_bytes(m.as_bytes()) succeeds for every message; it
\* returns a message equal to m when every address of m is an IPv4 address
\* or an IPv6 address that is not IPv4-mapped and has flowinfo 0 and
\* scope_id 0, and otherwise a different message with the same bytes.
C31_CanonicalRoundTrips ==
    test_back # NotRun =>
        /\ test_back.st = "Ok"
        /\ Message_as_bytes(test_back.m) = test_got
        /\ test_back.m = test_m <=> \A a \in AddrsOf(test_m) : IsCanonical(a)

\* a CallMeMaybe with an IPv4 and an IPv6 endpoint came back equal
C31_Witness ==
    /\ test_back = OkMessage(test_m)
    /\ test_m.type = "CallMeMaybe"
    /\ \E k \in 1..Len(test_m.my_number) : test_m.my_number[k].v6
    /\ \E k \in 1..Len(test_m.my_number) : ~test_m.my_number[k].v6

\* ------------------------------------------------------------------------
\* The fan-out with every party scheduled
\* ------------------------------------------------------------------------

\* the steps of get::run for g
RunSteps(g) ==
    \/ WriteHandshake(g)
    \/ WriteRequest(g)
    \/ ReadResponse(g)
    \/ ReadData(g)
    \/ AwaitTask(g)
    \/ CloseWriter(g)

\* the steps of the provider on the stream of g
PeerSteps(g) ==
    \/ PeerHandshake(g)
    \/ PeerRequest(g, Get(ghash[g]).size, 0)
    \/ PeerCopy(g)
    \/ PeerEnd(g)

\* the runtime runs every task that can go on: the caller's task with the
\* event sequence and its reader, the spawned decode task, the provider's
\* handler
Scheduled ==
    \A g \in Getters :
        /\ WF_vars(RunSteps(g))
        /\ WF_vars(TaskRead(g))
        /\ WF_vars(TaskWrite(g))
        /\ WF_vars(CallerRead(g))
        /\ WF_vars(PeerSteps(g))

FairFanSpec == Init /\ [][FanNext]_vars /\ Scheduled

\* ------------------------------------------------------------------------
\* C37: the getter reaches Done for every content size
\* ------------------------------------------------------------------------

\* C37: if the provider sends a complete, uncorrupted response and the
\* caller reads each Receiving reader to the end, a getter that has
\* connected eventually yields Done, for every content size, also for a
\* content larger than the DUPLEX_SIZE bytes the pipe between the decode
\* task and the reader holds: the decode task and the caller never wait
\* on each other forever.
C37_EventuallyDone ==
    \A g \in Getters : (gpc[g] # "init") ~> (ItemsOf(g, "Done") # <<>>)

\* Done for a content larger than the pipe, all of it read by the caller,
\* and a moment where the task waits for the caller: the pipe is full and
\* bytes are left to write
C37_Witness ==
    \E g, o \in Getters :
        /\ ItemsOf(g, "Done") # <<>>
        /\ Get(ghash[g]).size > DUPLEX_SIZE
        /\ TotalLen(got[g]) = Get(ghash[g]).size
        /\ dpc[o] = "running"
        /\ dbuf[o] # NoBytes
        /\ Room(o) = 0

====
